---- MODULE Spec2Model ----
(***************************************************************************)
(* The concatenative combinator interpreter of netcode.ts: values, the     *)
(* smart constructor catenate, the printer, the three-stack State and the  *)
(* gas-bounded loop of evaluate.                                           *)
(*                                                                         *)
(* A Catenate owns a JavaScript array of children.  State.pushCode is      *)
(* handed that array and calls Array.prototype.reverse on it, which works  *)
(* in place, so the arrays live in an object store (heap) and a Catenate   *)
(* value is a reference into it.  Every other Value has only fields that   *)
(* are never assigned after construction and is modelled by its contents.  *)
(***************************************************************************)
EXTENDS Integers, Sequences, FiniteSets, TLC

VARIABLES
  code,        \* State.code, top of the stack is the last element
  data,        \* State.data, top of the stack is the last element
  sink,        \* State.sink
  heap,        \* heap[r]: the _children array of the Catenate object r
  dictionary,  \* [has |-> a Map was passed, map |-> its entries]
  gas,         \* the local variable gas of evaluate
  pc,          \* "loop", "returned" or "thrown"; for a call of read alone,
               \* "read", "parsed" or "unreadable"
  result,      \* the Value evaluate returned (id until it returns)
  init,        \* the Value evaluate was called with
  born,        \* born[r]: the array of Catenate r as its constructor got it
  call,        \* [gas, heap, dictionary] as they were when evaluate was called,
               \* and script: it is the evaluate of script.ts
  iterations,  \* the number of loop iterations this call has started
  server,      \* the file whose listen loop serves the sockets, or "none"
  clients,     \* clients[c]: the Client object of connection c and the
               \* position of its listen loop
  sockets,     \* sockets[c]: the WebSocket of connection c
  workers      \* workers[c]: the Worker of connection c

vars ==
  <<code, data, sink, heap, dictionary, gas, pc, result, init, born, call,
    iterations, server, clients, sockets, workers>>

----------------------------------------------------------------------------
(* Bounds *)

MaxLen == 2    \* longest program of the exhaustive family
MaxCut == 3    \* gas budgets 0..MaxCut cut a run short
MaxGas == 14   \* the budget that stands for the default of 1_000_000
MaxChars == 4  \* longest source text handed to read

----------------------------------------------------------------------------
(* Values *)

id == [tag |-> "Id"]
constant(name) == [tag |-> "Constant", name |-> name]
variable(name) == [tag |-> "Variable", name |-> name]
quote(value) == [tag |-> "Quote", body |-> value]
text(value) == [tag |-> "Text", text |-> value]
prompt(value) == [tag |-> "Prompt", prompt |-> value]
Catenate(ref) == [tag |-> "Catenate", ref |-> ref]

\* The getter body: only a Quote has one, every other Value throws
\* NoSuchProperty.
hasBody(value) == value.tag = "Quote"
\* The getter text: only a Text has one.
hasText(value) == value.tag = "Text"

Reverse(s) == [i \in 1..Len(s) |-> s[Len(s) + 1 - i]]

\* A buf that takes every argument as it comes.
buf_keepsAll(values, h) == values

\* The loop of catenate that fills buf: Id arguments are skipped, the
\* children of a Catenate argument are pushed, anything else is pushed.
RECURSIVE buf(_, _)
buf(values, h) ==
  IF values = <<>> THEN <<>>
  ELSE LET value == Head(values)
           rest == buf(Tail(values), h)
       IN CASE value.tag = "Id" -> rest
            [] value.tag = "Catenate" -> h[value.ref] \o rest
            [] OTHER -> <<value>> \o rest

\* A catenate that hands back the one element of a buf of length 1.
catenate_unwraps(values, h) ==
  LET b == buf(values, h)
  IN IF Len(b) = 0 THEN [value |-> id, heap |-> h]
     ELSE IF Len(b) = 1 THEN [value |-> b[1], heap |-> h]
     ELSE [value |-> Catenate(Len(h) + 1), heap |-> Append(h, b)]

\* catenate(...values): Id for an empty buf, otherwise a new Catenate that
\* owns buf (also when buf has one element).
catenate(values, h) ==
  LET b == buf(values, h)
  IN IF Len(b) = 0
       THEN [value |-> id, heap |-> h]
       ELSE [value |-> Catenate(Len(h) + 1), heap |-> Append(h, b)]

\* toString, as the sequence of printed symbols: a name or a payload is one
\* symbol, brackets, delimiters and the joining space are symbols too.
RECURSIVE toString(_, _)
RECURSIVE join(_, _)
join(values, h) ==
  IF values = <<>> THEN <<>>
  ELSE IF Len(values) = 1 THEN toString(values[1], h)
  ELSE toString(values[1], h) \o <<" ">> \o join(Tail(values), h)
toString(value, h) ==
  CASE value.tag = "Id" -> <<>>
    [] value.tag = "Constant" -> <<value.name>>
    [] value.tag = "Variable" -> <<value.name>>
    [] value.tag = "Catenate" -> join(h[value.ref], h)
    [] value.tag = "Quote" -> <<"[">> \o toString(value.body, h) \o <<"]">>
    [] value.tag = "Text" -> <<"\"", value.text, "\"">>
    [] value.tag = "Prompt" -> <<"{", value.prompt, "}">>

----------------------------------------------------------------------------
(* read, on a source text that is already split into tokens.  A token is an *)
(* atom, [tok |-> tag, name |-> payload], or a bracketed program,           *)
(* [tok |-> "Quote", body |-> tokens].                                      *)

RECURSIVE build(_, _)
build(src, h) ==
  IF src = <<>> THEN [build |-> <<>>, heap |-> h]
  ELSE LET last == src[Len(src)]
           before == build(SubSeq(src, 1, Len(src) - 1), h)
       IN CASE last.tok = "Quote" ->
                 LET inner == build(last.body, before.heap)
                     c == catenate(inner.build, inner.heap)
                 IN [build |-> Append(before.build, quote(c.value)), heap |-> c.heap]
            [] last.tok = "Text" ->
                 [before EXCEPT !.build = Append(@, text(last.name))]
            [] last.tok = "Prompt" ->
                 [before EXCEPT !.build = Append(@, prompt(last.name))]
            [] last.tok = "Constant" ->
                 [before EXCEPT !.build = Append(@, constant(last.name))]
            [] OTHER ->
                 [before EXCEPT !.build = Append(@, variable(last.name))]

read(src, h) ==
  LET b == build(src, h) IN catenate(b.build, b.heap)

----------------------------------------------------------------------------
(* class State.  A machine m is a record of the three stacks together with  *)
(* what else one iteration of evaluate reads and writes: the object store,  *)
(* the dictionary, gas, and thrown (the Panic that left evaluate, or "").   *)

State(value) == [code |-> <<value>>, data |-> <<>>, sink |-> <<>>]

\* getData(index) returns normally (it throws NoMoreData otherwise).
okData(m, index) == index < Len(m.data)
getData(m, index) == m.data[Len(m.data) - index]
popData(m, length) ==
  [m EXCEPT !.data = SubSeq(m.data, 1, Len(m.data) - length)]
pushData(m, value) == [m EXCEPT !.data = Append(m.data, value)]

numCode(m) == Len(m.code)
getCode(m, index) == m.code[Len(m.code) - index]
popCode(m, length) ==
  [m EXCEPT !.code = SubSeq(m.code, 1, Len(m.code) - length)]

\* A push that slides the value under the top of code.
pushCode_under(m, value) ==
  IF m.code = <<>> THEN [m EXCEPT !.code = <<value>>]
  ELSE [m EXCEPT !.code = SubSeq(m.code, 1, Len(m.code) - 1)
                            \o <<value, m.code[Len(m.code)]>>]

\* pushCode of a single Value.
pushCode(m, value) == [m EXCEPT !.code = Append(m.code, value)]

\* pushCode of the array of Catenate ref: value.reverse() reverses the array
\* itself and returns it, and its elements are then pushed.
pushCodeArray(m, ref) ==
  [m EXCEPT !.heap[ref] = Reverse(m.heap[ref]),
            !.code = m.code \o Reverse(m.heap[ref])]

\* A thunk that moves the instruction to the sink before the data.
thunk_instructionFirst(m) ==
  IF Len(m.code) > 0
    THEN [m EXCEPT !.sink = Append(m.sink, m.code[Len(m.code)]) \o m.data,
                   !.data = <<>>,
                   !.code = SubSeq(m.code, 1, Len(m.code) - 1)]
    ELSE [m EXCEPT !.sink = m.sink \o m.data, !.data = <<>>]

thunk(m) ==
  LET flushed == [m EXCEPT !.sink = m.sink \o m.data, !.data = <<>>]
  IN IF Len(m.code) > 0
       THEN [flushed EXCEPT !.sink = Append(flushed.sink, m.code[Len(m.code)]),
                            !.code = SubSeq(m.code, 1, Len(m.code) - 1)]
       ELSE flushed

\* gas = 0
stop(m) == [m EXCEPT !.gas = 0]

\* An iteration that costs nothing.
spend_nothing(m) == m

\* gas--
spend(m) == [m EXCEPT !.gas = m.gas - 1]

----------------------------------------------------------------------------
(* The cases of the switch on hand.name.  Each tests what its try block     *)
(* needs (a getter that throws a Panic leads to the catch block) and then   *)
(* does the statements after the try block.                                 *)

\* A Copy whose catch block also sets gas to zero.
Copy_stops(m) ==
  IF ~okData(m, 0) THEN stop(thunk(m))
  ELSE pushData(popCode(m, 1), getData(m, 0))

\* A Copy that, finding no data, is popped and forgotten.
Copy_lost(m) ==
  IF ~okData(m, 0) THEN popCode(m, 1)
  ELSE pushData(popCode(m, 1), getData(m, 0))

Copy(m) ==
  IF ~okData(m, 0) THEN thunk(m)
  ELSE pushData(popCode(m, 1), getData(m, 0))

Drop(m) ==
  IF ~okData(m, 0) THEN thunk(m)
  ELSE popData(popCode(m, 1), 1)

\* A Swap that pushes the two values back in the order it found them.
Swap_keepsOrder(m) ==
  IF ~(okData(m, 0) /\ okData(m, 1)) THEN thunk(m)
  ELSE LET fst == getData(m, 0)
           snd == getData(m, 1)
       IN pushData(pushData(popData(popCode(m, 1), 2), snd), fst)

Swap(m) ==
  IF ~(okData(m, 0) /\ okData(m, 1)) THEN thunk(m)
  ELSE LET fst == getData(m, 0)
           snd == getData(m, 1)
       IN pushData(pushData(popData(popCode(m, 1), 2), fst), snd)

\* A Cat that catenates the body of the top Quote before the other.
Cat_swapped(m) ==
  IF ~(okData(m, 1) /\ hasBody(getData(m, 1)) /\ hasBody(getData(m, 0)))
    THEN thunk(m)
  ELSE LET lhs == getData(m, 1).body
           rhs == getData(m, 0).body
           c == catenate(<<rhs, lhs>>, m.heap)
       IN pushCode([popData(popCode(m, 1), 2) EXCEPT !.heap = c.heap],
                   quote(c.value))

Cat(m) ==
  IF ~(okData(m, 1) /\ hasBody(getData(m, 1)) /\ hasBody(getData(m, 0)))
    THEN thunk(m)
  ELSE LET lhs == getData(m, 1).body
           rhs == getData(m, 0).body
           c == catenate(<<lhs, rhs>>, m.heap)
       IN pushCode([popData(popCode(m, 1), 2) EXCEPT !.heap = c.heap],
                   quote(c.value))

Abs(m) ==
  IF ~okData(m, 0) THEN thunk(m)
  ELSE pushData(popData(popCode(m, 1), 1), quote(getData(m, 0)))

App(m) ==
  IF ~(okData(m, 0) /\ hasBody(getData(m, 0))) THEN stop(thunk(m))
  ELSE pushCode(popData(popCode(m, 1), 1), getData(m, 0).body)

\* The try block of Inl and of Inr: value, inl and inr are all read.
okBranches(m) ==
  /\ okData(m, 0)
  /\ okData(m, 2) /\ hasBody(getData(m, 2))
  /\ okData(m, 1) /\ hasBody(getData(m, 1))

\* An Inl that runs the right branch.
Inl_runsRight(m) ==
  IF ~okBranches(m) THEN stop(thunk(m))
  ELSE pushData(pushCode(popData(popCode(m, 1), 3), getData(m, 1).body),
                getData(m, 0))

Inl(m) ==
  IF ~okBranches(m) THEN stop(thunk(m))
  ELSE pushData(pushCode(popData(popCode(m, 1), 3), getData(m, 2).body),
                getData(m, 0))

\* An Inr that takes the value off data before it looks at the branches.
Inr_popsValue(m) ==
  IF ~okData(m, 0) THEN stop(thunk(m))
  ELSE IF ~okBranches(m) THEN stop(thunk(popData(m, 1)))
  ELSE pushData(pushCode(popData(popCode(m, 1), 3), getData(m, 1).body),
                getData(m, 0))

Inr(m) ==
  IF ~okBranches(m) THEN stop(thunk(m))
  ELSE pushData(pushCode(popData(popCode(m, 1), 3), getData(m, 1).body),
                getData(m, 0))

\* A Pair that catenates the top value before the one below it.
Pair_swapped(m) ==
  IF ~(okData(m, 1) /\ okData(m, 0)) THEN thunk(m)
  ELSE LET fst == getData(m, 1)
           snd == getData(m, 0)
           c == catenate(<<snd, fst>>, m.heap)
       IN pushData([popData(popCode(m, 1), 2) EXCEPT !.heap = c.heap],
                   quote(c.value))

Pair(m) ==
  IF ~(okData(m, 1) /\ okData(m, 0)) THEN thunk(m)
  ELSE LET fst == getData(m, 1)
           snd == getData(m, 0)
           c == catenate(<<fst, snd>>, m.heap)
       IN pushData([popData(popCode(m, 1), 2) EXCEPT !.heap = c.heap],
                   quote(c.value))

\* A scan that goes on to the Reset farthest from the top of code.
scan_farthest(m, index) ==
  LET found == {i \in index..(numCode(m) - 1) :
                  getCode(m, i).tag = "Constant"
                    /\ getCode(m, i).name = "Reset"}
  IN IF found = {} THEN IF index >= numCode(m) THEN index ELSE numCode(m)
     ELSE CHOOSE i \in found : \A j \in found : j <= i

\* The while loop of Shift: the least index >= 1 whose code item is the
\* Constant Reset, or numCode when there is none.
RECURSIVE scan(_, _)
scan(m, index) ==
  IF index >= numCode(m) THEN index
  ELSE LET c == getCode(m, index)
       IN IF c.tag = "Constant" /\ c.name = "Reset" THEN index
          ELSE scan(m, index + 1)

\* A Shift that finds no Reset and drops the handler before it thunks.
Shift_dropsHandler(m) ==
  IF ~(okData(m, 0) /\ hasBody(getData(m, 0))) THEN stop(thunk(m))
  ELSE LET handler == getData(m, 0).body
           index == scan(m, 1)
           scanned == [i \in 1..(index - 1) |-> getCode(m, i)]
           c == catenate(scanned, m.heap)
           continuation == quote(c.value)
       IN IF index >= numCode(m) THEN stop(thunk(popData(m, 1)))
          ELSE pushCode(
                 pushData(
                   popData([popCode(m, index + 1) EXCEPT !.heap = c.heap], 1),
                   continuation),
                 handler)

Shift(m) ==
  IF ~(okData(m, 0) /\ hasBody(getData(m, 0))) THEN stop(thunk(m))
  ELSE LET handler == getData(m, 0).body
           index == scan(m, 1)
           scanned == [i \in 1..(index - 1) |-> getCode(m, i)]
           c == catenate(scanned, m.heap)
           continuation == quote(c.value)
       IN IF index >= numCode(m) THEN stop(thunk(m))
          ELSE pushCode(
                 pushData(
                   popData([popCode(m, index + 1) EXCEPT !.heap = c.heap], 1),
                   continuation),
                 handler)

Reset(m) == stop(thunk(m))

\* A Define whose catch block drops the data before it thunks.
Define_consumes(m) ==
  IF ~m.dictionary.has THEN stop(thunk(m))
  ELSE IF ~(okData(m, 0) /\ hasText(getData(m, 0))
            /\ okData(m, 1) /\ hasBody(getData(m, 1)))
    THEN stop(thunk([m EXCEPT !.data = <<>>]))
  ELSE LET name == getData(m, 0).text
           body == getData(m, 1).body
           set == [n \in DOMAIN m.dictionary.map \cup {name} |->
                     IF n = name THEN body ELSE m.dictionary.map[n]]
       IN [popData(popCode(m, 1), 2) EXCEPT !.dictionary.map = set]

Define(m) ==
  IF ~m.dictionary.has THEN stop(thunk(m))
  ELSE IF ~(okData(m, 0) /\ hasText(getData(m, 0))
            /\ okData(m, 1) /\ hasBody(getData(m, 1)))
    THEN stop(thunk(m))
  ELSE LET name == getData(m, 0).text
           body == getData(m, 1).body
           set == [n \in DOMAIN m.dictionary.map \cup {name} |->
                     IF n = name THEN body ELSE m.dictionary.map[n]]
       IN [popData(popCode(m, 1), 2) EXCEPT !.dictionary.map = set]

\* A Delete that empties the Map (Map.clear) instead of removing one name.
Delete_clear(m) ==
  IF ~m.dictionary.has THEN stop(thunk(m))
  ELSE IF ~(okData(m, 0) /\ hasText(getData(m, 0))) THEN stop(thunk(m))
  ELSE [popData(popCode(m, 1), 1) EXCEPT
          !.dictionary.map = [n \in {} |-> id]]

Delete(m) ==
  IF ~m.dictionary.has THEN stop(thunk(m))
  ELSE IF ~(okData(m, 0) /\ hasText(getData(m, 0))) THEN stop(thunk(m))
  ELSE LET name == getData(m, 0).text
           deleted == [n \in DOMAIN m.dictionary.map \ {name} |->
                         m.dictionary.map[n]]
       IN [popData(popCode(m, 1), 1) EXCEPT !.dictionary.map = deleted]

\* switch (hand.name): a name with no case runs no statement at all.
switch(m, name) ==
  CASE name = "Copy" -> Copy(m)
    [] name = "Drop" -> Drop(m)
    [] name = "Swap" -> Swap(m)
    [] name = "Cat" -> Cat(m)
    [] name = "Abs" -> Abs(m)
    [] name = "App" -> App(m)
    [] name = "Inl" -> Inl(m)
    [] name = "Inr" -> Inr(m)
    [] name = "Pair" -> Pair(m)
    [] name = "Shift" -> Shift(m)
    [] name = "Reset" -> Reset(m)
    [] name = "Define" -> Define(m)
    [] name = "Delete" -> Delete(m)
    [] OTHER -> m

\* A Variable branch that looks the name up in the dictionary as it was when
\* evaluate was called.
unfold_atCall(m, hand) ==
  IF ~call.dictionary.has \/ hand.name \notin DOMAIN call.dictionary.map
    THEN stop(thunk(m))
  ELSE pushCode(popCode(m, 1), call.dictionary.map[hand.name])

\* The Variable branch.
unfold(m, hand) ==
  IF ~m.dictionary.has \/ hand.name \notin DOMAIN m.dictionary.map
    THEN stop(thunk(m))
  ELSE pushCode(popCode(m, 1), m.dictionary.map[hand.name])

\* One iteration of the while loop of evaluate.
iterate(m0) ==
  LET m == spend(m0)
      hand == getCode(m, 0)
  IN CASE hand.tag = "Catenate" -> pushCodeArray(popCode(m, 1), hand.ref)
       [] hand.tag = "Variable" -> unfold(m, hand)
       [] hand.tag \in {"Quote", "Text"} -> pushData(popCode(m, 1), hand)
       [] hand.tag = "Prompt" -> stop(thunk(m))
       [] hand.tag = "Constant" -> switch(m, hand.name)
       [] OTHER -> [m EXCEPT !.thrown = "Unknown"]

\* The condition of the while loop.
looping(m) == Len(m.code) > 0 /\ m.gas > 0

\* A return statement that forgets toReversed.
residual_codeBottomUp(m) == catenate(m.sink \o m.data \o m.code, m.heap)

\* The return statement: catenate(...sink, ...data, ...code.toReversed()).
residual(m) == catenate(m.sink \o m.data \o Reverse(m.code), m.heap)

\* The while loop, run to its end: the machine it ends in and the number of
\* iterations it took.
RECURSIVE loop(_, _)
loop(m, n) ==
  IF looping(m) /\ m.thrown = "" THEN loop(iterate(m), n + 1)
  ELSE [end |-> m, iterations |-> n]

\* evaluate(value, d, g) called with object store h: what it throws, the
\* Value it returns, and the object store and dictionary it leaves.
evaluate(value, d, g, h) ==
  LET s == State(value)
      l == loop([code |-> s.code, data |-> s.data, sink |-> s.sink,
                 heap |-> h, dictionary |-> d, gas |-> g, thrown |-> ""], 0)
      r == residual(l.end)
  IN IF l.end.thrown # ""
       THEN [thrown |-> l.end.thrown, value |-> id, heap |-> l.end.heap,
             dictionary |-> l.end.dictionary, iterations |-> l.iterations]
       ELSE [thrown |-> "", value |-> r.value, heap |-> r.heap,
             dictionary |-> l.end.dictionary, iterations |-> l.iterations]

----------------------------------------------------------------------------
(* The interpreter of dovetale/script.ts.  It has the Values of netcode.ts  *)
(* and six more: Inl, Inr, Unit and Pair are data, RunInl, RunInr and       *)
(* RunPair are what their body getters return.  catenate, State and the     *)
(* cases Copy, Drop, Swap, Abs, Reset and Delete read like netcode.ts.      *)

inl(value) == [tag |-> "Inl", enum |-> value]
inr(value) == [tag |-> "Inr", enum |-> value]
unit == [tag |-> "Unit"]
pair(fst, snd) == [tag |-> "Pair", fst |-> fst, snd |-> snd]
RunInl(value) == [tag |-> "RunInl", enum |-> value]
RunInr(value) == [tag |-> "RunInr", enum |-> value]
RunPair(fst, snd) == [tag |-> "RunPair", fst |-> fst, snd |-> snd]

\* The getter body: Quote, Inl, Inr, Unit and Pair have one.
script_hasBody(value) == value.tag \in {"Quote", "Inl", "Inr", "Unit", "Pair"}
script_body(value) ==
  CASE value.tag = "Quote" -> value.body
    [] value.tag = "Inl" -> RunInl(value.enum)
    [] value.tag = "Inr" -> RunInr(value.enum)
    [] value.tag = "Unit" -> id
    [] value.tag = "Pair" -> RunPair(value.fst, value.snd)

\* toString of script.ts, as the sequence of printed symbols.
RECURSIVE script_toString(_, _)
RECURSIVE script_join(_, _)
script_join(values, h) ==
  IF values = <<>> THEN <<>>
  ELSE IF Len(values) = 1 THEN script_toString(values[1], h)
  ELSE script_toString(values[1], h) \o <<" ">> \o script_join(Tail(values), h)
script_toString(value, h) ==
  CASE value.tag = "Id" -> <<>>
    [] value.tag = "Constant" -> <<value.name>>
    [] value.tag = "Variable" -> <<value.name>>
    [] value.tag = "Catenate" -> script_join(h[value.ref], h)
    [] value.tag = "Quote" ->
         <<"[">> \o script_toString(value.body, h) \o <<"]">>
    [] value.tag = "Inl" -> script_toString(value.enum, h) \o <<" ", "J">>
    [] value.tag = "Inr" -> script_toString(value.enum, h) \o <<" ", "K">>
    [] value.tag = "Unit" -> <<"[", "]">>
    [] value.tag = "Pair" ->
         script_toString(value.fst, h) \o <<" ">>
           \o script_toString(value.snd, h) \o <<" ", "L">>
    [] value.tag = "RunInl" ->
         script_toString(value.enum, h) \o <<" ", "J", " ", "H">>
    [] value.tag = "RunInr" ->
         script_toString(value.enum, h) \o <<" ", "K", " ", "H">>
    [] value.tag = "RunPair" ->
         script_toString(value.fst, h) \o <<" ">>
           \o script_toString(value.snd, h) \o <<" ", "L", " ", "H">>
    [] value.tag = "Text" -> <<"\"", value.text, "\"">>
    [] value.tag = "Prompt" -> <<"{", value.prompt, "}">>

\* read of script.ts: a bracket pair around nothing is a Unit.
RECURSIVE script_build(_, _)
script_build(src, h) ==
  IF src = <<>> THEN [build |-> <<>>, heap |-> h]
  ELSE LET last == src[Len(src)]
           before == script_build(SubSeq(src, 1, Len(src) - 1), h)
       IN CASE last.tok = "Quote" ->
                 LET inner == script_build(last.body, before.heap)
                     c == catenate(inner.build, inner.heap)
                     value == IF c.value = id THEN unit ELSE quote(c.value)
                 IN [build |-> Append(before.build, value), heap |-> c.heap]
            [] last.tok = "Text" ->
                 [before EXCEPT !.build = Append(@, text(last.name))]
            [] last.tok = "Prompt" ->
                 [before EXCEPT !.build = Append(@, prompt(last.name))]
            [] last.tok = "Constant" ->
                 [before EXCEPT !.build = Append(@, constant(last.name))]
            [] OTHER ->
                 [before EXCEPT !.build = Append(@, variable(last.name))]

script_read(src, h) ==
  LET b == script_build(src, h) IN catenate(b.build, b.heap)

\* The branches of evaluate for RunInl, RunInr and RunPair.
script_RunInl(m, hand) ==
  IF ~(okData(m, 1) /\ script_hasBody(getData(m, 1))
         /\ script_hasBody(getData(m, 0)))
    THEN stop(thunk(m))
  ELSE pushData(pushCode(popData(popCode(m, 1), 2),
                         script_body(getData(m, 1))),
                hand.enum)

script_RunInr(m, hand) ==
  IF ~(okData(m, 1) /\ script_hasBody(getData(m, 1))
         /\ script_hasBody(getData(m, 0)))
    THEN stop(thunk(m))
  ELSE pushData(pushCode(popData(popCode(m, 1), 2),
                         script_body(getData(m, 0))),
                hand.enum)

script_RunPair(m, hand) ==
  pushData(pushData(popCode(m, 1), hand.fst), hand.snd)

\* The cases of the switch that differ from netcode.ts.
script_Cat(m) ==
  IF ~(okData(m, 1) /\ script_hasBody(getData(m, 1))
         /\ script_hasBody(getData(m, 0)))
    THEN thunk(m)
  ELSE LET lhs == script_body(getData(m, 1))
           rhs == script_body(getData(m, 0))
           c == catenate(<<lhs, rhs>>, m.heap)
       IN pushCode([popData(popCode(m, 1), 2) EXCEPT !.heap = c.heap],
                   quote(c.value))

script_App(m) ==
  IF ~(okData(m, 0) /\ script_hasBody(getData(m, 0))) THEN stop(thunk(m))
  ELSE pushCode(popData(popCode(m, 1), 1), script_body(getData(m, 0)))

script_Inl(m) ==
  IF ~okData(m, 0) THEN thunk(m)
  ELSE pushData(popData(popCode(m, 1), 1), inl(getData(m, 0)))

script_Inr(m) ==
  IF ~okData(m, 0) THEN thunk(m)
  ELSE pushData(popData(popCode(m, 1), 1), inr(getData(m, 0)))

\* A Pair that stores the two values the other way round.
script_Pair_swapped(m) ==
  IF ~(okData(m, 1) /\ okData(m, 0)) THEN thunk(m)
  ELSE pushData(popData(popCode(m, 1), 2),
                pair(getData(m, 0), getData(m, 1)))

script_Pair(m) ==
  IF ~(okData(m, 1) /\ okData(m, 0)) THEN thunk(m)
  ELSE pushData(popData(popCode(m, 1), 2),
                pair(getData(m, 1), getData(m, 0)))

script_Shift(m) ==
  IF ~(okData(m, 0) /\ script_hasBody(getData(m, 0))) THEN stop(thunk(m))
  ELSE LET handler == script_body(getData(m, 0))
           index == scan(m, 1)
           scanned == [i \in 1..(index - 1) |-> getCode(m, i)]
           c == catenate(scanned, m.heap)
           continuation == quote(c.value)
       IN IF index >= numCode(m) THEN stop(thunk(m))
          ELSE pushCode(
                 pushData(
                   popData([popCode(m, index + 1) EXCEPT !.heap = c.heap], 1),
                   continuation),
                 handler)

script_Define(m) ==
  IF ~m.dictionary.has THEN stop(thunk(m))
  ELSE IF ~(okData(m, 0) /\ hasText(getData(m, 0))
            /\ okData(m, 1) /\ script_hasBody(getData(m, 1)))
    THEN stop(thunk(m))
  ELSE LET name == getData(m, 0).text
           body == script_body(getData(m, 1))
           set == [n \in DOMAIN m.dictionary.map \cup {name} |->
                     IF n = name THEN body ELSE m.dictionary.map[n]]
       IN [popData(popCode(m, 1), 2) EXCEPT !.dictionary.map = set]

script_switch(m, name) ==
  CASE name = "Copy" -> Copy(m)
    [] name = "Drop" -> Drop(m)
    [] name = "Swap" -> Swap(m)
    [] name = "Cat" -> script_Cat(m)
    [] name = "Abs" -> Abs(m)
    [] name = "App" -> script_App(m)
    [] name = "Inl" -> script_Inl(m)
    [] name = "Inr" -> script_Inr(m)
    [] name = "Pair" -> script_Pair(m)
    [] name = "Shift" -> script_Shift(m)
    [] name = "Reset" -> Reset(m)
    [] name = "Define" -> script_Define(m)
    [] name = "Delete" -> Delete(m)
    [] OTHER -> m

\* The branches for the three Run Values.
script_unfoldRun(m, hand) ==
  CASE hand.tag = "RunInl" -> script_RunInl(m, hand)
    [] hand.tag = "RunInr" -> script_RunInr(m, hand)
    [] hand.tag = "RunPair" -> script_RunPair(m, hand)

\* One iteration of the while loop of evaluate in script.ts.
script_iterate(m0) ==
  LET m == spend(m0)
      hand == getCode(m, 0)
  IN CASE hand.tag = "Catenate" -> pushCodeArray(popCode(m, 1), hand.ref)
       [] hand.tag = "Variable" -> unfold(m, hand)
       [] hand.tag \in {"Quote", "Inl", "Inr", "Pair", "Unit", "Text"} ->
            pushData(popCode(m, 1), hand)
       [] hand.tag = "Prompt" -> stop(thunk(m))
       [] hand.tag \in {"RunInl", "RunInr", "RunPair"} ->
            script_unfoldRun(m, hand)
       [] hand.tag = "Constant" -> script_switch(m, hand.name)
       [] OTHER -> [m EXCEPT !.thrown = "Unknown"]

\* The while loop of script.ts, run to its end.
RECURSIVE script_loop(_, _)
script_loop(m, n) ==
  IF looping(m) /\ m.thrown = "" THEN script_loop(script_iterate(m), n + 1)
  ELSE [end |-> m, iterations |-> n]

----------------------------------------------------------------------------
(* The programs evaluate is called with. *)

C(name) == [tok |-> "Constant", name |-> name]
V(name) == [tok |-> "Variable", name |-> name]
T(name) == [tok |-> "Text", name |-> name]
P(name) == [tok |-> "Prompt", name |-> name]
Q(body) == [tok |-> "Quote", body |-> body]

\* The names that have a case in the switch of evaluate.
Combinators ==
  {"Copy", "Drop", "Swap", "Cat", "Abs", "App", "Inl", "Inr", "Pair",
   "Shift", "Reset", "Define", "Delete"}

\* The alphabet of the exhaustive family: every combinator, a Constant with
\* no case, a name that is never bound (x) and one that programs bind (n),
\* a Text, a Prompt, the empty Quote and a Quote of two instructions.
Tokens ==
  {C(name) : name \in Combinators \cup {"Nop"}}
    \cup {V("x"), V("n"), T("n"), P("p"), Q(<<>>), Q(<<V("x"), V("y")>>)}

RECURSIVE SeqsUpTo(_, _)
SeqsUpTo(S, n) ==
  IF n = 0 THEN {<<>>}
  ELSE LET shorter == SeqsUpTo(S, n - 1)
       IN shorter \cup {Append(s, t) : s \in shorter, t \in S}

\* The cases of the repository's test file.
testCases ==
  { <<Q(<<V("foo")>>), C("Copy")>>,
    <<Q(<<V("foo")>>), C("Drop")>>,
    <<Q(<<V("foo")>>), Q(<<V("bar")>>), C("Swap")>>,
    <<Q(<<V("foo")>>), Q(<<V("bar")>>), C("Cat")>>,
    <<Q(<<V("foo")>>), C("Abs")>>,
    <<Q(<<V("foo")>>), C("App")>>,
    <<Q(<<V("inl")>>), Q(<<V("inr")>>), Q(<<V("value")>>), C("Inl")>>,
    <<Q(<<V("inl")>>), Q(<<V("inr")>>), Q(<<V("value")>>), C("Inr")>>,
    <<Q(<<V("fst")>>), Q(<<V("snd")>>), C("Pair")>>,
    <<T("Hello"), T("world"), C("Swap")>>,
    <<P(" Hello, world. ")>>,
    <<Q(<<V("handler")>>), C("Shift"), V("body0"), V("body1"), V("body2"),
      C("Reset")>> }

\* Programs that use the words of the header comment, [body] "name" Define
\* and "name" Delete, and then the name; and programs that run a Quote that
\* was copied, or capture up to the nearest of two Resets; and one that
\* deletes a name while another name is bound, and one whose Define finds a
\* Text where the Quote should be; and one that runs Swap, Abs, Copy and
\* Drop above a value they do not use; and ones whose Cat finds a Text, two
\* empty Quotes, or one empty Quote on either side; and one whose Shift has
\* the empty Quote as handler, or finds a Text above a Reset; and ones whose
\* Inl or Inr selects the empty Quote, or is followed by an App; and one that
\* pairs a Quote with a Text above another Text and applies the pair.
words ==
  { <<Q(<<V("x"), V("y")>>), T("n"), C("Define"), V("n"), V("n")>>,
    <<Q(<<Q(<<V("x")>>), Q(<<V("y")>>)>>), T("n"), C("Define"), V("n"), V("n")>>,
    <<Q(<<V("x"), V("y")>>), T("n"), C("Define"), T("n"), C("Delete"), V("n")>>,
    <<Q(<<V("x"), V("y")>>), T("n"), C("Define"),
      Q(<<V("y")>>), T("n"), C("Define"), V("n")>>,
    <<Q(<<>>), T("n"), C("Define"), V("n")>>,
    <<Q(<<V("x"), V("y")>>), C("Copy"), C("App")>>,
    <<Q(<<Q(<<V("x")>>), Q(<<V("y")>>)>>), C("Copy"), C("App"), C("App")>>,
    <<C("Copy"), Q(<<V("x")>>), C("Copy")>>,
    <<Q(<<V("x")>>), C("Swap"), Q(<<V("y")>>), C("Copy")>>,
    <<Q(<<C("Reset")>>), C("Shift"), V("x"), V("y"), C("Reset"), V("n"),
      C("Reset")>>,
    <<Q(<<V("x")>>), C("Shift"), V("x"), V("y"), V("n")>>,
    <<Q(<<V("x")>>), T("m"), C("Define"), T("n"), C("Delete"), V("n")>>,
    <<T("m"), T("n"), C("Define"), V("n")>>,
    <<T("m"), Q(<<V("x")>>), T("n"), C("Swap"), C("Abs"), C("Copy"),
      C("Drop")>>,
    <<T("n"), Q(<<V("x")>>), C("Cat"), Q(<<>>), Q(<<>>), C("Cat"),
      Q(<<V("x"), V("y")>>), C("Cat")>>,
    <<Q(<<V("x"), V("y")>>), Q(<<>>), C("Cat")>>,
    <<Q(<<>>), C("Shift"), V("x"), C("Reset"), V("y")>>,
    <<T("n"), C("Shift"), V("x"), C("Reset")>>,
    <<Q(<<>>), Q(<<V("x")>>), T("n"), C("Inl"), V("y")>>,
    <<Q(<<V("x")>>), Q(<<>>), T("n"), C("Inr"), V("y")>>,
    <<Q(<<V("inl")>>), Q(<<V("inr")>>), Q(<<V("value")>>), C("Inl"),
      C("App")>>,
    <<Q(<<V("inl")>>), Q(<<V("inr")>>), Q(<<V("value")>>), C("Inr"),
      C("App")>>,
    <<T("m"), Q(<<V("x")>>), T("n"), C("Pair"), C("App")>>,
    <<Q(<<V("x"), V("y")>>), C("Copy"), T("n"), C("Define"), C("Swap"),
      V("n")>> }

Programs == SeqsUpTo(Tokens, MaxLen) \cup testCases \cup words

\* The cases of the test file of script.ts.
script_testCases ==
  { <<Q(<<V("foo")>>), C("Copy")>>,
    <<Q(<<V("foo")>>), C("Drop")>>,
    <<Q(<<V("foo")>>), Q(<<V("bar")>>), C("Swap")>>,
    <<Q(<<V("foo")>>), Q(<<V("bar")>>), C("Cat")>>,
    <<Q(<<V("foo")>>), C("Abs")>>,
    <<Q(<<V("foo")>>), C("App")>>,
    <<Q(<<V("inl")>>), Q(<<V("inr")>>), Q(<<V("value")>>), C("Inl"),
      C("App")>>,
    <<Q(<<V("inl")>>), Q(<<V("inr")>>), Q(<<V("value")>>), C("Inr"),
      C("App")>>,
    <<Q(<<V("fst")>>), Q(<<V("snd")>>), C("Pair"), C("App")>>,
    <<T("Hello"), T("world"), C("Swap")>>,
    <<P(" Hello, world. ")>>,
    <<Q(<<V("handler")>>), C("Shift"), V("body0"), V("body1"), V("body2"),
      C("Reset")>> }

\* The alphabet of the exhaustive family of script.ts programs.
ScriptTokens ==
  {C(name) : name \in {"Copy", "Abs", "App", "Inl", "Inr", "Pair", "Cat"}}
    \cup {V("x"), T("n"), Q(<<>>), Q(<<V("x"), V("y")>>)}

\* Programs that inject a Text or a Pair and apply it on two branches, one of
\* them with an empty left branch, and that pair values of several kinds and
\* apply the Pair.
script_words ==
  { <<Q(<<V("x")>>), Q(<<V("y")>>), T("n"), C("Inl"), C("App")>>,
    <<Q(<<V("x")>>), Q(<<V("y")>>), T("n"), C("Inr"), C("App")>>,
    <<Q(<<Q(<<V("x")>>)>>), Q(<<V("y")>>), T("m"), T("n"), C("Pair"),
      C("Inl"), C("App")>>,
    <<Q(<<>>), Q(<<V("y")>>), T("n"), C("Inl"), C("App"), V("x")>>,
    <<T("m"), Q(<<>>), T("n"), C("Inr"), C("Pair"), C("App")>>,
    <<T("m"), Q(<<V("x")>>), T("n"), C("Pair"), C("Pair"), C("App"),
      C("App")>> }

ScriptPrograms ==
  SeqsUpTo(ScriptTokens, MaxLen) \cup script_testCases \cup script_words

\* What evaluate is given as dictionary: nothing (as the tests do), the new
\* Map of a worker, or the Map in which an earlier request
\* [[x] [y]] "n" Define has bound n to the body [x] [y].
Dictionaries == {"none", "new", "bound"}

\* The budgets: small ones that cut a run short, and the default.
Budgets == (0..MaxCut) \cup {MaxGas}

----------------------------------------------------------------------------
(* The state machine: one call of evaluate, one loop iteration per step. *)

\* No connection has been made.
NoServer ==
  /\ server = "none"
  /\ clients = <<>>
  /\ sockets = <<>>
  /\ workers = <<>>

machine ==
  [code |-> code, data |-> data, sink |-> sink, heap |-> heap,
   dictionary |-> dictionary, gas |-> gas, thrown |-> ""]

Init ==
  \E src \in Programs, d \in Dictionaries, g \in Budgets :
    LET bound == read(<<Q(<<V("x")>>), Q(<<V("y")>>)>>, <<>>)
        h0 == IF d = "bound" THEN bound.heap ELSE <<>>
        parsed == read(src, h0)
        s == State(parsed.value)
    IN /\ code = s.code
       /\ data = s.data
       /\ sink = s.sink
       /\ heap = parsed.heap
       /\ born = parsed.heap
       /\ dictionary =
            [has |-> d # "none",
             map |-> IF d = "bound" THEN [n \in {"n"} |-> bound.value]
                     ELSE [n \in {} |-> id]]
       /\ gas = g
       /\ pc = "loop"
       /\ result = id
       /\ init = parsed.value
       /\ call = [gas |-> g, heap |-> parsed.heap, dictionary |-> dictionary,
                  script |-> FALSE]
       /\ iterations = 0
       /\ NoServer

\* A call of the evaluate of script.ts, as its tests and its worker make it.
ScriptInit ==
  \E src \in ScriptPrograms, d \in {"none", "new"}, g \in Budgets :
    LET parsed == script_read(src, <<>>)
        s == State(parsed.value)
    IN /\ code = s.code
       /\ data = s.data
       /\ sink = s.sink
       /\ heap = parsed.heap
       /\ born = parsed.heap
       /\ dictionary = [has |-> d # "none", map |-> [n \in {} |-> id]]
       /\ gas = g
       /\ pc = "loop"
       /\ result = id
       /\ init = parsed.value
       /\ call = [gas |-> g, heap |-> parsed.heap, dictionary |-> dictionary,
                  script |-> TRUE]
       /\ iterations = 0
       /\ NoServer

\* born gets the arrays that the step constructed.
Born(h) == born \o SubSeq(h, Len(born) + 1, Len(h))

\* One iteration of the while loop; a Panic that nothing catches leaves
\* evaluate.
Iterate ==
  /\ pc = "loop"
  /\ looping(machine)
  /\ LET m == IF call.script THEN script_iterate(machine)
              ELSE iterate(machine)
     IN /\ code' = m.code
        /\ data' = m.data
        /\ sink' = m.sink
        /\ heap' = m.heap
        /\ dictionary' = m.dictionary
        /\ gas' = m.gas
        /\ pc' = IF m.thrown = "" THEN "loop" ELSE "thrown"
        /\ born' = Born(m.heap)
  /\ iterations' = iterations + 1
  /\ UNCHANGED <<result, init, call, server, clients, sockets, workers>>

\* The loop has ended and evaluate returns the residual.
Return ==
  /\ pc = "loop"
  /\ ~looping(machine)
  /\ LET r == residual(machine)
     IN /\ result' = r.value
        /\ heap' = r.heap
        /\ born' = Born(r.heap)
  /\ pc' = "returned"
  /\ UNCHANGED <<code, data, sink, dictionary, gas, init, call, iterations,
                 server, clients, sockets, workers>>

Next == Iterate \/ Return

Spec == Init /\ [][Next]_vars

\* The calls of script.ts alone, and the calls of both interpreters.
ScriptSpec == ScriptInit /\ [][Next]_vars
BothSpec == (Init \/ ScriptInit) /\ [][Next]_vars

----------------------------------------------------------------------------
(* What the claims speak of. *)

\* The instruction at the top of code and the code below it.
hand == code[Len(code)]
below == SubSeq(code, 1, Len(code) - 1)

\* The loop is about to run an iteration.
Dispatching == pc = "loop" /\ Len(code) > 0 /\ gas > 0

\* The i-th data value from the top is there and is a Quote (a Text).
QuoteAt(i) == Len(data) > i /\ data[Len(data) - i].tag = "Quote"
TextAt(i) == Len(data) > i /\ data[Len(data) - i].tag = "Text"

IsConstant(value, name) == value.tag = "Constant" /\ value.name = name

\* The printed symbols of a sequence of stack items: each item printed by
\* toString, the non-empty printings joined by one space.
RECURSIVE Printed(_, _)
Printed(values, h) ==
  IF values = <<>> THEN <<>>
  ELSE LET first == toString(Head(values), h)
           others == Printed(Tail(values), h)
       IN IF first = <<>> THEN others
          ELSE IF others = <<>> THEN first
          ELSE first \o <<" ">> \o others

\* The step is a thunk: data is flushed to the sink, then the instruction.
Thunked ==
  /\ sink' = sink \o data \o <<hand>>
  /\ data' = <<>>
  /\ code' = below
  /\ heap' = heap
  /\ dictionary' = dictionary
  /\ pc' = "loop"

----------------------------------------------------------------------------
\* C1: evaluate of a program of at least one token never leaves by a Panic
\* (here Unknown, the only Panic that no catch block of evaluate handles): it
\* always returns a residual.
C1_NeverPanics == init # id => pc # "thrown"

----------------------------------------------------------------------------
\* C2: the iterations started so far and the gas that is left never add up to
\* more than the budget evaluate was given, and gas never goes below zero: every
\* iteration, thunking or not, costs at least one unit, so a call given g runs
\* at most g iterations.
C2_GasBoundsIterations ==
  /\ gas >= 0
  /\ iterations + gas <= call.gas

\* A call that was cut by its budget right after a Copy that thunked and went
\* on.
C2_Witness ==
  /\ pc = "returned"
  /\ call.gas > 0
  /\ iterations = call.gas
  /\ sink = <<constant("Copy")>>
  /\ Len(code) > 0

----------------------------------------------------------------------------
\* The instruction at the top of code suspends for good: a Prompt, a Variable
\* that is not bound, a Reset, or an App, Shift, Define or Delete that cannot
\* fire.
Terminal ==
  \/ hand.tag = "Prompt"
  \/ /\ hand.tag = "Variable"
     /\ ~dictionary.has \/ hand.name \notin DOMAIN dictionary.map
  \/ IsConstant(hand, "Reset")
  \/ IsConstant(hand, "App") /\ ~QuoteAt(0)
  \/ /\ IsConstant(hand, "Shift")
     /\ \/ ~QuoteAt(0)
        \/ \A i \in 1..Len(below) : ~IsConstant(below[i], "Reset")
  \/ /\ IsConstant(hand, "Define")
     /\ ~dictionary.has \/ ~TextAt(0) \/ ~QuoteAt(1)
  \/ /\ IsConstant(hand, "Delete")
     /\ ~dictionary.has \/ ~TextAt(0)

\* C3: an iteration whose instruction suspends for good is one thunk that
\* sets gas to zero, so that no further iteration runs, and the residual then
\* prints as the sink and data so far, the instruction, and the code below it
\* from the top downward.
C3_TerminalThunkStops ==
  [][ (Dispatching /\ Terminal) =>
        /\ Thunked
        /\ gas' = 0
        /\ Printed(sink' \o data' \o Reverse(code'), heap')
             = Printed(sink \o data \o <<hand>> \o Reverse(below), heap) ]_vars

\* A Shift with a handler but no Reset has stopped the call with data in the
\* sink and code left over.
C3_Witness ==
  /\ pc = "returned"
  /\ gas = 0
  /\ iterations < call.gas
  /\ Len(sink) >= 2
  /\ sink[Len(sink)] = constant("Shift")
  /\ Len(code) >= 2

----------------------------------------------------------------------------
\* Copy, Drop, Swap, Cat, Abs or Pair is at the top of code and cannot fire.
StarvedSix ==
  \/ (IsConstant(hand, "Copy") \/ IsConstant(hand, "Drop")
        \/ IsConstant(hand, "Abs")) /\ Len(data) < 1
  \/ (IsConstant(hand, "Swap") \/ IsConstant(hand, "Pair")) /\ Len(data) < 2
  \/ IsConstant(hand, "Cat") /\ ~(QuoteAt(0) /\ QuoteAt(1))

\* Inl or Inr is at the top of code and cannot fire.
StarvedBranch ==
  /\ IsConstant(hand, "Inl") \/ IsConstant(hand, "Inr")
  /\ Len(data) < 3 \/ ~QuoteAt(1) \/ ~QuoteAt(2)

\* C4 as claimed: each of the eight combinators that cannot fire thunks and
\* leaves gas alone but for the unit the iteration costs.
C4_EightContinue ==
  [][ (Dispatching /\ (StarvedSix \/ StarvedBranch)) =>
        (Thunked /\ gas' = gas - 1) ]_vars

\* C4 as amended: Copy, Drop, Swap, Cat, Abs and Pair that cannot fire thunk
\* and the loop goes on (gas loses only the unit of the iteration); Inl and
\* Inr that cannot fire thunk and set gas to zero.
C4_SixContinueBranchesStop ==
  [][ /\ (Dispatching /\ StarvedSix) => (Thunked /\ gas' = gas - 1)
      /\ (Dispatching /\ StarvedBranch) => (Thunked /\ gas' = 0) ]_vars

\* A Copy with no data went to the sink and the instructions after it ran:
\* a later Copy has doubled a Quote.
C4_Witness ==
  /\ sink = <<constant("Copy")>>
  /\ Len(data) = 2
  /\ data[1] = data[2]
  /\ code = <<>>

----------------------------------------------------------------------------
\* C5: the residual evaluate returns prints as the sink in insertion order,
\* then data from the bottom up, then code from the top down.
C5_ResidualOrder ==
  pc = "returned" =>
    toString(result, heap) = Printed(sink \o data \o Reverse(code), heap)

\* A call returned with items in the sink and several instructions not run.
C5_Witness ==
  /\ pc = "returned"
  /\ result.tag = "Catenate"
  /\ Len(sink) > 0
  /\ Len(code) >= 2

----------------------------------------------------------------------------
\* What a caller sees of a call: what it threw, the printed residual and the
\* printed body of every name of the dictionary it left.
Outcome(e) ==
  [thrown |-> e.thrown,
   printed |-> toString(e.value, e.heap),
   bodies |-> [n \in DOMAIN e.dictionary.map |->
                 toString(e.dictionary.map[n], e.heap)]]

\* C6: when the budget cut the call short (the same call with the default
\* budget runs more iterations), evaluating the residual with the dictionary
\* the call left has the same outcome as the uninterrupted call on the values
\* and dictionary as they were when the call began, both with the default
\* budget and neither using it up.
C6_ResumeEqualsUninterrupted ==
  pc = "returned" =>
    LET whole == evaluate(init, call.dictionary, MaxGas, call.heap)
        resumed == evaluate(result, dictionary, MaxGas, heap)
    IN (/\ iterations = call.gas
        /\ whole.iterations > call.gas
        /\ whole.iterations < MaxGas
        /\ resumed.iterations < MaxGas)
       => Outcome(resumed) = Outcome(whole)

----------------------------------------------------------------------------
\* C7: a second call of evaluate on the same parsed Value, with the same gas
\* and the same Map whose bindings the first call left as they were, returns
\* a residual that prints like the first and leaves the bindings alone.
C7_SecondCallSameResult ==
  (pc = "returned" /\ dictionary = call.dictionary) =>
    LET again == evaluate(init, dictionary, call.gas, heap)
    IN /\ again.thrown = ""
       /\ toString(again.value, again.heap) = toString(result, heap)
       /\ again.dictionary = dictionary

----------------------------------------------------------------------------
\* C8: every Catenate, wherever it is held (the input term, a Quote on data,
\* a dictionary body), has the children its constructor was given, in the
\* same order.
C8_ValuesNeverChange ==
  \A r \in DOMAIN heap : heap[r] = born[r]

----------------------------------------------------------------------------
\* Define is at the top of code and can fire.
Defining ==
  IsConstant(hand, "Define") /\ dictionary.has /\ TextAt(0) /\ QuoteAt(1)

\* Delete is at the top of code and can fire.
Deleting == IsConstant(hand, "Delete") /\ dictionary.has /\ TextAt(0)

\* The Variable at the top of code is bound.
Resolving ==
  hand.tag = "Variable" /\ dictionary.has /\ hand.name \in DOMAIN dictionary.map

\* C9: Define consumes the Text and the Quote and binds the name to the body
\* of the Quote; and when the body of a name is spliced into code, its
\* instructions stand on code, from the top down, in the order in which the
\* body was constructed.
C9_DefinedBodyUnfoldsInOrder ==
  [][ /\ (Dispatching /\ Defining) =>
           /\ data' = SubSeq(data, 1, Len(data) - 2)
           /\ code' = below
           /\ data[Len(data)].text \in DOMAIN dictionary'.map
           /\ dictionary'.map[data[Len(data)].text] = data[Len(data) - 1].body
      /\ (/\ Dispatching
          /\ hand.tag = "Catenate"
          /\ \E n \in DOMAIN dictionary.map : dictionary.map[n] = hand) =>
           code' = below \o Reverse(born[hand.ref]) ]_vars

----------------------------------------------------------------------------
\* C10: the dictionary changes only in the iteration whose instruction is a
\* Define or a Delete that fires, and then by that binding alone; a Variable
\* is looked up in the dictionary of the iteration it is the instruction of:
\* bound there, its binding replaces it on code; not bound there, it thunks
\* and stops.
C10_DictionaryInProgramOrder ==
  [][ Dispatching =>
        /\ Defining =>
             dictionary'.map =
               [n \in DOMAIN dictionary.map \cup {data[Len(data)].text} |->
                  IF n = data[Len(data)].text THEN data[Len(data) - 1].body
                  ELSE dictionary.map[n]]
        /\ Deleting =>
             dictionary'.map =
               [n \in DOMAIN dictionary.map \ {data[Len(data)].text} |->
                  dictionary.map[n]]
        /\ ~(Defining \/ Deleting) => dictionary' = dictionary
        /\ Resolving => code' = Append(below, dictionary.map[hand.name])
        /\ (hand.tag = "Variable" /\ ~Resolving) => (Thunked /\ gas' = 0) ]_vars

\* A call that began with an empty Map has defined n and then resolved it:
\* the Quotes of its body are on data.
C10_Witness ==
  /\ pc = "returned"
  /\ call.dictionary.has
  /\ DOMAIN call.dictionary.map = {}
  /\ DOMAIN dictionary.map = {"n"}
  /\ Len(data) >= 2

----------------------------------------------------------------------------
\* C11: a Delete that fires consumes the Text and nothing else of data,
\* leaves the name without a binding and every other binding as it was,
\* whether or not the name was bound, and raises nothing; and a Variable
\* whose name has no binding, as after its Delete, thunks and stops.
C11_DeleteUnbinds ==
  [][ /\ (Dispatching /\ Deleting) =>
           LET name == data[Len(data)].text
           IN /\ data' = SubSeq(data, 1, Len(data) - 1)
              /\ code' = below
              /\ sink' = sink
              /\ pc' = "loop"
              /\ gas' = gas - 1
              /\ dictionary'.has
              /\ DOMAIN dictionary'.map = DOMAIN dictionary.map \ {name}
              /\ \A n \in DOMAIN dictionary'.map :
                   dictionary'.map[n] = dictionary.map[n]
      /\ (/\ Dispatching
          /\ hand.tag = "Variable"
          /\ dictionary.has
          /\ hand.name \notin DOMAIN dictionary.map) =>
           (Thunked /\ gas' = 0) ]_vars

\* A call that began with n bound has bound m, deleted n and then met the
\* Variable n, which went to the sink and stopped the call; m is still bound.
C11_Witness ==
  /\ pc = "returned"
  /\ DOMAIN call.dictionary.map = {"n"}
  /\ DOMAIN dictionary.map = {"m"}
  /\ sink = <<variable("n")>>
  /\ data = <<>>
  /\ gas = 0

\* A call that began with an empty Map has bound m and deleted n, which was
\* not bound: the Text is gone, m is bound as before and nothing was raised.
C11_WitnessNotBound ==
  /\ pc = "loop"
  /\ DOMAIN call.dictionary.map = {}
  /\ DOMAIN dictionary.map = {"m"}
  /\ data = <<>>
  /\ sink = <<>>
  /\ code = <<variable("n")>>

----------------------------------------------------------------------------
\* C12: a Define or a Delete that is given no dictionary, or does not find
\* its operands on data (a Text on top of a Quote for Define, a Text on top
\* for Delete), thunks and stops: the data, operands included, goes to the
\* sink as it was, followed by the instruction; no value and no binding is
\* changed; gas is zero; and the residual prints the operands and the
\* instruction where they stood.
C12_FailedWordThunksAndStops ==
  [][ (/\ Dispatching
       /\ \/ /\ IsConstant(hand, "Define")
             /\ ~dictionary.has \/ ~TextAt(0) \/ ~QuoteAt(1)
          \/ /\ IsConstant(hand, "Delete")
             /\ ~dictionary.has \/ ~TextAt(0)) =>
        /\ sink' = sink \o data \o <<hand>>
        /\ data' = <<>>
        /\ code' = below
        /\ dictionary' = dictionary
        /\ heap' = heap
        /\ gas' = 0
        /\ pc' = "loop"
        /\ Printed(sink' \o data' \o Reverse(code'), heap')
             = Printed(sink \o data \o Reverse(code), heap) ]_vars

\* A Define with a Text on top of a Text, in a call that has a dictionary,
\* has stopped the call: both Texts and the Define are in the sink, nothing
\* is bound and the Variable after it was not run.
C12_Witness ==
  /\ pc = "returned"
  /\ dictionary.has
  /\ DOMAIN dictionary.map = {}
  /\ sink = <<text("m"), text("n"), constant("Define")>>
  /\ code = <<variable("n")>>
  /\ gas = 0

----------------------------------------------------------------------------
\* C13: an iteration whose instruction is a Constant with a name that has no
\* case in the switch leaves evaluate by the Panic Unknown, so no call returns
\* a residual with such a Constant at the top of code.
C13_UnknownConstantRaises ==
  [][ (/\ Dispatching
       /\ hand.tag = "Constant"
       /\ hand.name \notin Combinators) => pc' = "thrown" ]_vars

----------------------------------------------------------------------------
\* C14: the empty source reads as Id, and a call of evaluate on Id raises
\* nothing and returns Id, which prints as the empty string.
C14_EmptyProgramReturnsEmpty ==
  /\ read(<<>>, <<>>).value = id
  /\ init = id =>
       /\ pc # "thrown"
       /\ pc = "returned" => (result = id /\ toString(result, heap) = <<>>)

----------------------------------------------------------------------------
\* The call carried on from machine m with the default budget: what it
\* throws, the Value it returns, the object store and dictionary it leaves.
carryOn(m) ==
  LET l == loop([m EXCEPT !.gas = MaxGas], 0)
      r == residual(l.end)
  IN IF l.end.thrown # ""
       THEN [thrown |-> l.end.thrown, value |-> id, heap |-> l.end.heap,
             dictionary |-> l.end.dictionary, iterations |-> l.iterations]
       ELSE [thrown |-> "", value |-> r.value, heap |-> r.heap,
             dictionary |-> l.end.dictionary, iterations |-> l.iterations]

\* The instructions of a body in reading order: none for Id, the children
\* of a Catenate, the Value itself otherwise.
instructions(body) ==
  CASE body.tag = "Id" -> <<>>
    [] body.tag = "Catenate" -> heap[body.ref]
    [] OTHER -> <<body>>

\* C15: with App at the top of code and a Quote [a] at the top of data, the
\* call carried on from there has the same outcome as the call carried on
\* from the machine of `a rest`: the same data without the Quote, and the
\* instructions of a on code above the code that followed App (both with the
\* default budget, neither using it up).  This for every body a, the empty
\* one included.
C15_AppRunsBody ==
  (Dispatching /\ IsConstant(hand, "App") /\ QuoteAt(0)) =>
    LET a == instructions(data[Len(data)].body)
        inlined == [machine EXCEPT !.data = SubSeq(data, 1, Len(data) - 1),
                                   !.code = below \o Reverse(a)]
        applied == carryOn(machine)
        direct == carryOn(inlined)
    IN (applied.iterations < MaxGas /\ direct.iterations < MaxGas)
       => Outcome(applied) = Outcome(direct)

----------------------------------------------------------------------------
\* The instruction was popped and data became d; the sink, every value and
\* the dictionary are as they were and the call goes on.
Rewrote(d) ==
  /\ data' = d
  /\ code' = below
  /\ sink' = sink
  /\ heap' = heap
  /\ dictionary' = dictionary
  /\ gas' = gas - 1
  /\ pc' = "loop"

\* C16: a Copy, Drop or Abs with at least one value on data, and a Swap with
\* at least two, is one iteration that pops the instruction and rewrites the
\* top of data (a -> a a; a -> ; a b -> b a; a -> [a]) whatever the operands
\* are, and leaves the data below them, the sink and the code below the
\* instruction as they were.
C16_StackRules ==
  [][ Dispatching =>
        LET n == Len(data)
        IN /\ (IsConstant(hand, "Copy") /\ n >= 1) =>
                Rewrote(Append(data, data[n]))
           /\ (IsConstant(hand, "Drop") /\ n >= 1) =>
                Rewrote(SubSeq(data, 1, n - 1))
           /\ (IsConstant(hand, "Swap") /\ n >= 2) =>
                Rewrote(SubSeq(data, 1, n - 2) \o <<data[n], data[n - 1]>>)
           /\ (IsConstant(hand, "Abs") /\ n >= 1) =>
                Rewrote(Append(SubSeq(data, 1, n - 1), quote(data[n]))) ]_vars

\* "m" [x] "n" Swap Abs Copy Drop has run to its end: the Text m that none
\* of the four uses is still at the bottom of data, below n and [[x]].
C16_Witness ==
  /\ pc = "returned"
  /\ Len(data) = 3
  /\ data[1] = text("m")
  /\ data[2] = text("n")
  /\ data[3].tag = "Quote" /\ data[3].body.tag = "Quote"
  /\ code = <<>>
  /\ sink = <<>>
  /\ iterations = 8

----------------------------------------------------------------------------
\* C17: a Cat with Quotes [a] and [b] on top of data (b on top) takes both
\* off data and puts in their place one Quote whose body is the instructions
\* of a followed by those of b, flat, and the empty body when both are empty:
\* the Quote is pushed on code, where the next iteration moves it to data,
\* and a residual taken in between prints it right after the data.  No Value
\* that existed is changed.  A Cat that lacks an operand or finds one that
\* is not a Quote thunks and goes on: the data goes to the sink as it was.
C17_CatCatenates ==
  [][ Dispatching =>
        LET n == Len(data)
        IN /\ (IsConstant(hand, "Cat") /\ QuoteAt(0) /\ QuoteAt(1)) =>
                LET ab == instructions(data[n - 1].body)
                            \o instructions(data[n].body)
                    q == code'[Len(code')]
                IN /\ data' = SubSeq(data, 1, n - 2)
                   /\ code' = Append(below, q)
                   /\ sink' = sink
                   /\ pc' = "loop"
                   /\ q.tag = "Quote"
                   /\ IF ab = <<>> THEN q.body = id /\ heap' = heap
                      ELSE /\ q.body = Catenate(Len(heap) + 1)
                           /\ heap' = Append(heap, ab)
                   /\ Printed(sink' \o data' \o Reverse(code'), heap')
                        = Printed(sink \o data' \o <<q>> \o Reverse(below),
                                  heap')
           /\ (IsConstant(hand, "Cat") /\ ~(QuoteAt(0) /\ QuoteAt(1))) =>
                (Thunked /\ gas' = gas - 1)
           /\ hand.tag = "Quote" =>
                /\ data' = Append(data, hand)
                /\ code' = below
                /\ sink' = sink
                /\ heap' = heap ]_vars

\* "n" [x] Cat [] [] Cat [x y] Cat has run to its end: the first Cat found a
\* Text and went to the sink behind its operands, the second made [] of two
\* empty Quotes, the third made [x y] of [] and [x y], which is on data.
C17_Witness ==
  /\ pc = "returned"
  /\ Len(sink) = 3
  /\ sink[1] = text("n")
  /\ sink[2].tag = "Quote"
  /\ sink[3] = constant("Cat")
  /\ Len(data) = 1
  /\ data[1].tag = "Quote"
  /\ data[1].body.tag = "Catenate"
  /\ heap[data[1].body.ref] = <<variable("x"), variable("y")>>
  /\ code = <<>>

----------------------------------------------------------------------------
\* The positions in code, below the instruction, that hold a Reset, and the
\* one nearest to the top of code: the first Reset that follows in reading
\* order.
Resets == {i \in 1..Len(below) : IsConstant(below[i], "Reset")}
nearest == CHOOSE i \in Resets : \A j \in Resets : j <= i

\* Shift is at the top of code and can fire.
Shifting == IsConstant(hand, "Shift") /\ QuoteAt(0) /\ Resets # {}

\* The instructions between the Shift and the nearest Reset, in reading
\* order, and the code that follows that Reset.
between == Reverse(SubSeq(below, nearest + 1, Len(below)))
afterReset == SubSeq(below, 1, nearest - 1)

\* C18: with Shift at the top of code, a Quote [h] at the top of data and a
\* Reset below on code, the call carried on from there has the same outcome
\* as the call carried on from the machine the claim describes: [h] on data
\* replaced by a Quote of the instructions between the Shift and the Reset in
\* reading order, the data below it as it was, and on code the instructions
\* of h above the code that followed the Reset (both with the default budget,
\* neither using it up).
C18_ShiftCapturesAndRunsHandler ==
  (Dispatching /\ Shifting) =>
    LET h == instructions(data[Len(data)].body)
        k == catenate(between, heap)
        captured ==
          [machine EXCEPT
             !.data = Append(SubSeq(data, 1, Len(data) - 1), quote(k.value)),
             !.code = afterReset \o Reverse(h),
             !.heap = k.heap]
        shifted == carryOn(machine)
        direct == carryOn(captured)
    IN (shifted.iterations < MaxGas /\ direct.iterations < MaxGas)
       => Outcome(shifted) = Outcome(direct)

----------------------------------------------------------------------------
\* C19: a Shift that fires captures the instructions up to the Reset nearest
\* to it and no further: no Reset is among the captured instructions, that
\* Reset is consumed, and the code that followed it, later Resets included,
\* stays on code as it was, below the body of the handler.
C19_ShiftPairsWithNearestReset ==
  [][ (Dispatching /\ Shifting) =>
        LET k == catenate(between, heap)
        IN /\ \A i \in 1..Len(between) : ~IsConstant(between[i], "Reset")
           /\ data' = Append(SubSeq(data, 1, Len(data) - 1), quote(k.value))
           /\ heap' = k.heap
           /\ code' = Append(afterReset, data[Len(data)].body)
           /\ \A i \in Resets \ {nearest} : IsConstant(code'[i], "Reset")
           /\ sink' = sink
           /\ pc' = "loop" ]_vars

\* [Reset] Shift x y Reset n Reset has run to its end: x y were captured,
\* the handler's Reset went to the sink, and n and the last Reset are still
\* on code.
C19_Witness ==
  /\ pc = "returned"
  /\ Len(sink) = 2
  /\ sink[1].tag = "Quote"
  /\ sink[1].body.tag = "Catenate"
  /\ heap[sink[1].body.ref] = <<variable("x"), variable("y")>>
  /\ sink[2] = constant("Reset")
  /\ code = <<constant("Reset"), variable("n")>>

----------------------------------------------------------------------------
\* The program evaluate was called with, as it was read, is a Quote, a Shift
\* and then instructions none of which is a Reset.
ShiftWithoutReset ==
  /\ init.tag = "Catenate"
  /\ Len(call.heap[init.ref]) >= 2
  /\ call.heap[init.ref][1].tag = "Quote"
  /\ IsConstant(call.heap[init.ref][2], "Shift")
  /\ \A i \in 1..Len(call.heap[init.ref]) :
       ~IsConstant(call.heap[init.ref][i], "Reset")

\* C20: a Shift with no Reset below it on code, or with no Quote at the top
\* of data, thunks and stops: data goes to the sink as it was, followed by
\* the Shift, the code below stays, nothing is consumed or changed and gas
\* is zero; and the call of a program [h] Shift a b c without a Reset
\* returns a residual that prints as the program did.
C20_ShiftWithoutResetPassesThrough ==
  [][ /\ (Dispatching /\ IsConstant(hand, "Shift")
            /\ (~QuoteAt(0) \/ Resets = {})) =>
           /\ Thunked
           /\ gas' = 0
           /\ Printed(sink' \o data' \o Reverse(code'), heap')
                = Printed(sink \o data \o Reverse(code), heap)
      /\ (pc' = "returned" /\ ShiftWithoutReset) =>
           toString(result', heap') = toString(init, call.heap) ]_vars

\* [x] Shift x y n has returned: the handler and the Shift are in the sink
\* and x y n are on code, not run.
C20_Witness ==
  /\ pc = "returned"
  /\ ShiftWithoutReset
  /\ Len(sink) = 2
  /\ sink[1].tag = "Quote"
  /\ sink[2] = constant("Shift")
  /\ data = <<>>
  /\ code = <<variable("n"), variable("y"), variable("x")>>
  /\ gas = 0

----------------------------------------------------------------------------
\* Inl or Inr is at the top of code and can fire: three values on data, the
\* two below the top being Quotes.
Branching ==
  /\ IsConstant(hand, "Inl") \/ IsConstant(hand, "Inr")
  /\ Len(data) >= 3 /\ QuoteAt(1) /\ QuoteAt(2)

\* C21: with data [l] [r] a, the call carried on from an Inl (an Inr) has the
\* same outcome as the call carried on from the machine the claim describes:
\* the three values off data, a back on data, and the instructions of l (of
\* r) on code above the code that followed, the other branch gone (both with
\* the default budget, neither using it up).  An Inl or Inr that lacks a
\* value or finds a branch that is not a Quote thunks and sets gas to zero.
C21_BranchSelects ==
  [][ Dispatching =>
        /\ Branching =>
             LET n == Len(data)
                 chosen == IF IsConstant(hand, "Inl") THEN data[n - 2]
                           ELSE data[n - 1]
                 selected ==
                   [machine EXCEPT
                      !.data = Append(SubSeq(data, 1, n - 3), data[n]),
                      !.code = below \o Reverse(instructions(chosen.body))]
                 branched == carryOn(machine)
                 direct == carryOn(selected)
             IN /\ data' = Append(SubSeq(data, 1, n - 3), data[n])
                /\ sink' = sink
                /\ (branched.iterations < MaxGas /\ direct.iterations < MaxGas)
                     => Outcome(branched) = Outcome(direct)
        /\ StarvedBranch => (Thunked /\ gas' = 0) ]_vars

----------------------------------------------------------------------------
\* The two cases of the test file of script.ts that inject and apply.
InjectLeftCase ==
  <<Q(<<V("inl")>>), Q(<<V("inr")>>), Q(<<V("value")>>), C("Inl"), C("App")>>
InjectRightCase ==
  <<Q(<<V("inl")>>), Q(<<V("inr")>>), Q(<<V("value")>>), C("Inr"), C("App")>>

\* The call is the evaluate of script.ts on the program src with the default
\* budget.
ScriptCallOf(src) ==
  /\ call.script
  /\ call.gas = MaxGas
  /\ init = script_read(src, <<>>).value
  /\ call.heap = script_read(src, <<>>).heap

\* The call of script.ts carried on from machine m with the default budget,
\* and what a caller sees of it.
script_carryOn(m) ==
  LET l == script_loop([m EXCEPT !.gas = MaxGas], 0)
      r == residual(l.end)
  IN IF l.end.thrown # ""
       THEN [thrown |-> l.end.thrown, value |-> id, heap |-> l.end.heap,
             dictionary |-> l.end.dictionary, iterations |-> l.iterations]
       ELSE [thrown |-> "", value |-> r.value, heap |-> r.heap,
             dictionary |-> l.end.dictionary, iterations |-> l.iterations]

script_Outcome(e) ==
  [thrown |-> e.thrown,
   printed |-> script_toString(e.value, e.heap),
   bodies |-> [n \in DOMAIN e.dictionary.map |->
                 script_toString(e.dictionary.map[n], e.heap)]]

\* C22: in script.ts, Inl (Inr) wraps the top of data into an Inl (Inr)
\* value; App on that value puts its runner on code; and the runner, with two
\* branches below on data, takes them off, leaves the injected value on data
\* and puts the body of the left (right) branch on code, which then runs:
\* the call carried on has the outcome of the call carried on from the
\* machine with the instructions of that branch on code.  So the calls of
\* [inl] [inr] [value] Inl App and of [inl] [inr] [value] Inr App return
\* residuals that print [value] inl and [value] inr.
C22_InjectThenApplySelects ==
  [][ /\ Dispatching =>
           LET n == Len(data)
           IN /\ (IsConstant(hand, "Inl") /\ n >= 1) =>
                   (data' = Append(SubSeq(data, 1, n - 1), inl(data[n]))
                      /\ code' = below)
              /\ (IsConstant(hand, "Inr") /\ n >= 1) =>
                   (data' = Append(SubSeq(data, 1, n - 1), inr(data[n]))
                      /\ code' = below)
              /\ (IsConstant(hand, "App") /\ n >= 1
                    /\ data[n].tag \in {"Inl", "Inr"}) =>
                   /\ data' = SubSeq(data, 1, n - 1)
                   /\ code' = Append(below,
                                     IF data[n].tag = "Inl"
                                       THEN RunInl(data[n].enum)
                                       ELSE RunInr(data[n].enum))
              /\ (hand.tag \in {"RunInl", "RunInr"} /\ n >= 2
                    /\ script_hasBody(data[n]) /\ script_hasBody(data[n - 1])) =>
                   /\ data' = Append(SubSeq(data, 1, n - 2), hand.enum)
                   /\ code' = Append(below,
                                     IF hand.tag = "RunInl"
                                       THEN script_body(data[n - 1])
                                       ELSE script_body(data[n]))
                   /\ sink' = sink
                   /\ LET chosen == IF hand.tag = "RunInl" THEN data[n - 1]
                                    ELSE data[n]
                          selected ==
                            [machine EXCEPT
                               !.data = Append(SubSeq(data, 1, n - 2),
                                               hand.enum),
                               !.code = below \o Reverse(
                                          instructions(script_body(chosen)))]
                          applied == script_carryOn(machine)
                          direct == script_carryOn(selected)
                      IN (applied.iterations < MaxGas
                            /\ direct.iterations < MaxGas)
                         => script_Outcome(applied) = script_Outcome(direct)
      /\ (pc' = "returned" /\ ScriptCallOf(InjectLeftCase)) =>
           script_toString(result', heap') = <<"[", "value", "]", " ", "inl">>
      /\ (pc' = "returned" /\ ScriptCallOf(InjectRightCase)) =>
           script_toString(result', heap') = <<"[", "value", "]", " ", "inr">>
    ]_vars

----------------------------------------------------------------------------
\* The call is the evaluate of netcode.ts on the program src, read on its
\* own, with the default budget.
CallOf(src) ==
  /\ ~call.script
  /\ call.gas = MaxGas
  /\ init = Catenate(Len(call.heap))
  /\ toString(init, call.heap) = toString(read(src, <<>>).value,
                                          read(src, <<>>).heap)

\* C23 as claimed: in netcode.ts the calls of [inl] [inr] [value] Inl App
\* and of [inl] [inr] [value] Inr App return residuals that print
\* [value] inl and [value] inr.
C23_InjectApplyRendersBranch ==
  /\ (pc = "returned" /\ CallOf(InjectLeftCase)) =>
       toString(result, heap) = <<"[", "value", "]", " ", "inl">>
  /\ (pc = "returned" /\ CallOf(InjectRightCase)) =>
       toString(result, heap) = <<"[", "value", "]", " ", "inr">>

\* C23 as amended: in netcode.ts Inl (Inr) itself selects the branch, the
\* Variable of the branch is not bound and stops the call, and the App is
\* left over: the residuals print [value] inl App and [value] inr App.
C23_InjectApplyLeavesApp ==
  /\ (pc = "returned" /\ CallOf(InjectLeftCase)) =>
       toString(result, heap)
         = <<"[", "value", "]", " ", "inl", " ", "App">>
  /\ (pc = "returned" /\ CallOf(InjectRightCase)) =>
       toString(result, heap)
         = <<"[", "value", "]", " ", "inr", " ", "App">>

\* [inl] [inr] [value] Inl App has returned: [value] and the Variable inl are
\* in the sink and the App is still on code.
C23_Witness ==
  /\ pc = "returned"
  /\ CallOf(InjectLeftCase)
  /\ Len(sink) = 2
  /\ sink[1].tag = "Quote"
  /\ sink[2] = variable("inl")
  /\ code = <<constant("App")>>

----------------------------------------------------------------------------
\* One iteration of the evaluate that was called.
step(m) == IF call.script THEN script_iterate(m) ELSE iterate(m)

\* The machine after the iterations that bring code down to depth items, at
\* most n of them.
RECURSIVE runDownTo(_, _, _)
runDownTo(m, depth, n) ==
  IF n = 0 \/ Len(m.code) <= depth \/ ~looping(m) \/ m.thrown # "" THEN m
  ELSE runDownTo(step(m), depth, n - 1)

\* Pair is at the top of code with App right below it and two values on data.
PairThenApp ==
  /\ IsConstant(hand, "Pair")
  /\ Len(code) >= 2
  /\ IsConstant(code[Len(code) - 1], "App")
  /\ Len(data) >= 2

\* C24: in either interpreter, from a Pair that is followed by an App, with
\* values a b on top of data, the iterations that run the Pair, the App and
\* what the App put on code end with the same data as before, a b in
\* their order on top, the same sink, and the code that followed the App;
\* nothing is thrown and the dictionary is as it was.
C24_PairThenAppRestores ==
  (Dispatching /\ PairThenApp) =>
    LET end == runDownTo([machine EXCEPT !.gas = MaxGas], Len(code) - 2,
                         MaxGas)
    IN /\ end.thrown = ""
       /\ end.data = data
       /\ end.sink = sink
       /\ end.code = SubSeq(code, 1, Len(code) - 2)
       /\ end.dictionary = dictionary
       /\ end.gas > 0

\* "m" [x] "n" Pair Pair App App has returned from script.ts: both Pairs were
\* taken apart again and the three values are on data in their order.
C24_Witness ==
  /\ pc = "returned"
  /\ call.script
  /\ Len(data) = 3
  /\ data[1] = text("m")
  /\ data[2].tag = "Quote"
  /\ data[3] = text("n")
  /\ code = <<>>
  /\ sink = <<>>
  /\ iterations = 10

\* "m" [x] "n" Pair App has returned from netcode.ts with the three values
\* on data in their order.
C24_WitnessMinimal ==
  /\ pc = "returned"
  /\ ~call.script
  /\ Len(data) = 3
  /\ data[1] = text("m")
  /\ data[2].tag = "Quote"
  /\ data[3] = text("n")
  /\ code = <<>>
  /\ sink = <<>>
  /\ iterations = 9

----------------------------------------------------------------------------
\* The case of the test file of netcode.ts for Pair.
PairCase == <<Q(<<V("fst")>>), Q(<<V("snd")>>), C("Pair")>>

\* C25: in netcode.ts a Pair with values a b on top of data is one iteration
\* that pops the instruction and puts, in place of a and b, one Quote whose
\* body is a new Catenate of a and b in that order, leaving the rest of
\* data, the sink, the code below and every other Value alone; a Pair with
\* fewer than two values thunks and the loop goes on; and the call of
\* [fst] [snd] Pair returns a residual that prints [[fst] [snd]].
C25_PairCatenates ==
  [][ /\ Dispatching =>
           LET n == Len(data)
           IN /\ (IsConstant(hand, "Pair") /\ n >= 2) =>
                   /\ data' = Append(SubSeq(data, 1, n - 2),
                                     quote(Catenate(Len(heap) + 1)))
                   /\ heap' = Append(heap, <<data[n - 1], data[n]>>)
                   /\ code' = below
                   /\ sink' = sink
                   /\ gas' = gas - 1
                   /\ pc' = "loop"
              /\ (IsConstant(hand, "Pair") /\ n < 2) =>
                   (Thunked /\ gas' = gas - 1)
      /\ (pc' = "returned" /\ CallOf(PairCase)) =>
           toString(result', heap')
             = <<"[", "[", "fst", "]", " ", "[", "snd", "]", "]">> ]_vars

\* [fst] [snd] Pair has returned with one Quote on data, whose body holds
\* the two Quotes in their order.
C25_Witness ==
  /\ pc = "returned"
  /\ CallOf(PairCase)
  /\ Len(data) = 1
  /\ data[1].tag = "Quote"
  /\ data[1].body.tag = "Catenate"
  /\ Len(heap[data[1].body.ref]) = 2
  /\ toString(heap[data[1].body.ref][1], heap) = <<"[", "fst", "]">>
  /\ code = <<>>
  /\ sink = <<>>

----------------------------------------------------------------------------
\* The instructions of the residual r, as a second call would meet them.
residualItems(r) ==
  CASE r.tag = "Id" -> <<>>
    [] r.tag = "Catenate" -> heap[r.ref]
    [] OTHER -> <<r>>

\* No instruction of the residual r is a Prompt, a Variable that the
\* dictionary does not bind, or one of the combinators whose thunk stops the
\* call.
FullyReduced(r) ==
  \A i \in 1..Len(residualItems(r)) :
    LET item == residualItems(r)[i]
    IN /\ item.tag # "Prompt"
       /\ item.tag = "Variable" =>
            (dictionary.has /\ item.name \in DOMAIN dictionary.map)
       /\ item.tag = "Constant" =>
            item.name \notin {"App", "Inl", "Inr", "Shift", "Reset", "Define",
                              "Delete"}

\* C26: when a call of netcode.ts that was not cut by its budget (code ran
\* out) returns a residual in which nothing is suspended for good, a call on
\* that residual with the same dictionary and the default budget raises
\* nothing and returns a Value that prints as the residual does; the empty
\* residual included.
C26_ResidualIsFixedPoint ==
  (pc = "returned" /\ ~call.script /\ code = <<>> /\ FullyReduced(result)) =>
    LET again == evaluate(result, dictionary, MaxGas, heap)
    IN /\ again.thrown = ""
       /\ again.iterations < MaxGas =>
            toString(again.value, again.heap) = toString(result, heap)

----------------------------------------------------------------------------
----------------------------------------------------------------------------
\* C28: at every point of every call, no Catenate has an Id or a Catenate
\* among its children.  Every Catenate object is in the object store, so
\* this covers the term read, the items of the three stacks, Quote bodies,
\* dictionary bodies and the residual.
Flat(children) ==
  \A i \in 1..Len(children) : children[i].tag \notin {"Id", "Catenate"}

C28_CatenatesAreFlat ==
  \A r \in DOMAIN heap : Flat(heap[r]) /\ Flat(born[r])

\* In the middle of a call, a Catenate made by an instruction has the
\* children of a Catenate that was there when the call began: that one was
\* an argument of catenate and was spliced.
C28_Witness ==
  /\ pc = "loop"
  /\ ~call.script
  /\ \E r \in DOMAIN heap : \E q \in DOMAIN call.heap :
       /\ r > Len(call.heap)
       /\ Len(born[r]) >= 2
       /\ born[r] = born[q]

----------------------------------------------------------------------------
\* C29 (as stated): no Catenate has fewer than two children.
C29_CatenateHasTwoChildren ==
  \A r \in DOMAIN heap : Len(born[r]) >= 2

\* What read gives for the program that is the one token t, by the
\* interpreter of this call.
readToken(t) ==
  IF call.script THEN script_read(<<t>>, <<>>) ELSE read(<<t>>, <<>>)

OneToken(t) ==
  /\ call.heap = readToken(t).heap
  /\ init = readToken(t).value

\* C29 (amended): catenate returns Id or a new Catenate, never one of its
\* arguments: a Catenate has at least one child, and when one element
\* remains the Catenate holds just that element.  Reading a program gives
\* Id or a Catenate, and reading a one-token program gives a Catenate whose
\* only child is the token's Value.
C29_CatenateWrapsOneChild ==
  /\ init.tag \in {"Id", "Catenate"}
  /\ result.tag \in {"Id", "Catenate"}
  /\ \A r \in DOMAIN heap : Len(born[r]) >= 1 /\ Len(heap[r]) = Len(born[r])
  /\ \A t \in Tokens \cup ScriptTokens :
       (OneToken(t) /\ init.tag # "Id") =>
         /\ init.tag = "Catenate"
         /\ Len(call.heap[init.ref]) = 1
         /\ IF call.script
              THEN script_toString(call.heap[init.ref][1], call.heap)
                     = script_toString(init, call.heap)
              ELSE toString(call.heap[init.ref][1], call.heap)
                     = toString(init, call.heap)

\* A call on the one-token program x: the term read is a Catenate whose
\* children array holds the Variable x and nothing else.
C29_Witness ==
  /\ OneToken(V("x"))
  /\ init.tag = "Catenate"
  /\ call.heap[init.ref] = <<variable("x")>>

----------------------------------------------------------------------------
(* read, on the characters of the source text.  A text is a sequence of     *)
(* characters; one character stands for each class the reader tells apart.  *)

Whitespace == {" "}                \* /\s/
Uppercase == {"A"}                 \* /[A-Z]/
Lowercase == {"a"}                 \* /[a-z]/
\* [\w-] beyond the letters: digits, underscore, hyphen
WordMarks == {"-"}
\* a character of no class, such as $
Symbols == {"$"}
Chars ==
  {"[", "]", "\"", "{", "}"} \cup Whitespace \cup Uppercase \cup Lowercase
    \cup WordMarks \cup Symbols

_isSeparator(char) == char \in Whitespace \cup {"[", "]"}

\* Any name at all passes.
matches_any(name, initial) == TRUE

\* /^[A-Z][\w-]*$/ with initial = Uppercase, /^[a-z][\w-]*$/ with
\* initial = Lowercase.
matches(name, initial) ==
  /\ Len(name) >= 1
  /\ name[1] \in initial
  /\ \A i \in 2..Len(name) :
       name[i] \in Uppercase \cup Lowercase \cup WordMarks

\* The inner while loops: the first index at or after index that is past
\* the end of src or holds a character of halt.
advance(src, index, halt) ==
  LET hits == {j \in index..Len(src) : src[j] \in halt}
  IN IF hits = {} THEN Len(src) + 1
     ELSE CHOOSE j \in hits : \A k \in hits : j <= k

Unreadable(message) == [thrown |-> "Unreadable", message |-> message]

\* The outer while loop of read from index on, built and stack as the
\* locals build and stack; built collects the tokens read so far.
RECURSIVE read_loop(_, _, _, _)
read_loop(src, index, built, stack) ==
  IF index > Len(src)
    THEN IF Len(stack) > 0 THEN Unreadable("Unbalanced brackets")
         ELSE [thrown |-> "", build |-> built]
  ELSE
    LET char == src[index]
    IN CASE char \in Whitespace ->
              read_loop(src, advance(src, index, Chars \ Whitespace),
                        built, stack)
         [] char = "[" ->
              read_loop(src, index + 1, <<>>, Append(stack, built))
         [] char = "]" ->
              IF Len(stack) = 0 THEN Unreadable("Unbalanced brackets")
              ELSE read_loop(src, index + 1,
                             Append(stack[Len(stack)], Q(built)),
                             SubSeq(stack, 1, Len(stack) - 1))
         [] char = "\"" ->
              LET start == index + 1
                  end == advance(src, start, {"\""})
              IN IF end > Len(src) THEN Unreadable("Unbalanced quotes")
                 ELSE read_loop(src, end + 1,
                                Append(built, T(SubSeq(src, start, end - 1))),
                                stack)
         [] char = "{" ->
              LET start == index + 1
                  end == advance(src, start, {"}"})
              IN IF end > Len(src) THEN Unreadable("Unbalanced braces")
                 ELSE read_loop(src, end + 1,
                                Append(built, P(SubSeq(src, start, end - 1))),
                                stack)
         [] char \in Uppercase ->
              LET end == advance(src, index + 1, {c \in Chars : _isSeparator(c)})
                  name == SubSeq(src, index, end - 1)
              IN IF ~matches(name, Uppercase) THEN Unreadable("Unknown symbol")
                 ELSE read_loop(src, end, Append(built, C(name)), stack)
         [] OTHER ->
              LET end == advance(src, index + 1, {c \in Chars : _isSeparator(c)})
                  name == SubSeq(src, index, end - 1)
              IN IF ~matches(name, Lowercase) THEN Unreadable("Unknown symbol")
                 ELSE read_loop(src, end, Append(built, V(name)), stack)

\* read(src) for a string: the tokens of the loop, then catenate(...build).
read_string(src) ==
  LET l == read_loop(src, 1, <<>>, <<>>)
  IN IF l.thrown # ""
       THEN [thrown |-> l.thrown, message |-> l.message, value |-> id,
             heap |-> <<>>]
       ELSE LET r == read(l.build, <<>>)
            IN [thrown |-> "", message |-> "", value |-> r.value,
                heap |-> r.heap]

Texts == SeqsUpTo(Chars, MaxChars)

\* A call read(src): init holds the string.
ReadInit ==
  \E src \in Texts :
    /\ init = src
    /\ pc = "read"
    /\ code = <<>>
    /\ data = <<>>
    /\ sink = <<>>
    /\ heap = <<>>
    /\ born = <<>>
    /\ dictionary = [has |-> FALSE, map |-> [n \in {} |-> id]]
    /\ gas = MaxGas
    /\ result = id
    /\ call = [gas |-> MaxGas, heap |-> <<>>, dictionary |-> dictionary,
               script |-> FALSE]
    /\ iterations = 0
    /\ NoServer

\* read runs to its return or to its throw.
Read ==
  /\ pc = "read"
  /\ LET r == read_string(init)
     IN /\ pc' = IF r.thrown = "" THEN "parsed" ELSE "unreadable"
        /\ result' = r.value
        /\ heap' = r.heap
        /\ born' = r.heap
  /\ UNCHANGED <<code, data, sink, dictionary, gas, init, call, iterations,
                 server, clients, sockets, workers>>

ReadNext == Read

ReadSpec == ReadInit /\ [][ReadNext]_vars

----------------------------------------------------------------------------
\* C30: read throws Unreadable, and returns no Value, exactly when the
\* text has a ] with no open [, a [ that is never closed, a " or a { with
\* no closing delimiter, or a token that is not an identifier with an
\* uppercase or a lowercase initial; any other text yields a Value.
\* Delimiters are those of the text cut into lexemes from left to right:
\* a bracket, a text from " to the next ", a prompt from { to the next },
\* or a token, the longest run of characters up to white space or a
\* bracket.

\* The length of the longest prefix of s with no character of S.
RECURSIVE Run(_, _)
Run(s, S) ==
  IF s = <<>> \/ Head(s) \in S THEN 0 ELSE 1 + Run(Tail(s), S)

Drop_first(s, n) == SubSeq(s, n + 1, Len(s))

Identifier(w) ==
  /\ w # <<>>
  /\ Head(w) \in Uppercase \cup Lowercase
  /\ \A i \in 2..Len(w) : w[i] \notin {"\"", "{", "}"} \cup Symbols

RECURSIVE Lexemes(_)
Lexemes(s) ==
  IF s = <<>> THEN <<>>
  ELSE LET c == Head(s)
           rest == Tail(s)
       IN CASE c = " " -> Lexemes(rest)
            [] c \in {"[", "]"} -> <<c>> \o Lexemes(rest)
            [] c \in {"\"", "{"} ->
                 LET close == IF c = "{" THEN "}" ELSE c
                     n == Run(rest, {close})
                 IN IF n = Len(rest) THEN <<"unclosed">>
                    ELSE <<"payload">> \o Lexemes(Drop_first(rest, n + 1))
            [] OTHER ->
                 LET n == Run(s, {" ", "[", "]"})
                 IN <<IF Identifier(SubSeq(s, 1, n)) THEN "identifier"
                      ELSE "other">> \o Lexemes(Drop_first(s, n))

\* The [ less the ] among L[i..j].
Balance(L, i, j) ==
  Cardinality({k \in i..j : L[k] = "["})
    - Cardinality({k \in i..j : L[k] = "]"})

Defective(s) ==
  LET L == Lexemes(s)
  IN \/ \E k \in 1..Len(L) :
          L[k] = "]" /\ \A i \in 1..k : Balance(L, i, k) < 0
     \/ \E k \in 1..Len(L) :
          L[k] = "[" /\ \A j \in k..Len(L) : Balance(L, k, j) > 0
     \/ \E k \in 1..Len(L) : L[k] = "unclosed"
     \/ \E k \in 1..Len(L) : L[k] = "other"

C30_UnreadableIffDefective ==
  pc \in {"parsed", "unreadable"} =>
    /\ pc = "unreadable" <=> Defective(init)
    /\ pc = "unreadable" => result = id /\ heap = <<>>
    /\ pc = "parsed" => result.tag \in {"Id", "Catenate"}

\* read was called on "]"] : the ] inside the text is payload and the one
\* after it has no open [ ; read has thrown.
C30_Witness ==
  /\ pc = "unreadable"
  /\ init = <<"\"", "]", "\"", "]">>
  /\ Defective(init)

\* read was called on {"}a : the " is the payload of a prompt, and read
\* has returned the prompt and the variable.
C30_WitnessParsed ==
  /\ pc = "parsed"
  /\ init = <<"{", "\"", "}", "a">>
  /\ ~Defective(init)
  /\ toString(result, heap) = <<"{", <<"\"">>, "}", " ", <<"a">> >>

----------------------------------------------------------------------------
(* toString, character by character, for Values whose names and payloads    *)
(* are sequences of characters (those read_string returns).                 *)

\* Array.prototype.join with no separator between the children.
toString_join_tight(strings) ==
  IF strings = <<>> THEN <<>>
  ELSE LET F[i \in 1..Len(strings)] ==
             IF i = 1 THEN strings[1] ELSE F[i - 1] \o strings[i]
       IN F[Len(strings)]

\* Array.prototype.join(" ").
toString_join(strings) ==
  IF strings = <<>> THEN <<>>
  ELSE LET F[i \in 1..Len(strings)] ==
             IF i = 1 THEN strings[1] ELSE F[i - 1] \o <<" ">> \o strings[i]
       IN F[Len(strings)]

RECURSIVE toString_string(_, _)
toString_string(value, h) ==
  CASE value.tag = "Id" -> <<>>
    [] value.tag = "Constant" -> value.name
    [] value.tag = "Variable" -> value.name
    [] value.tag = "Catenate" ->
         toString_join([i \in 1..Len(h[value.ref]) |->
                          toString_string(h[value.ref][i], h)])
    [] value.tag = "Quote" ->
         <<"[">> \o toString_string(value.body, h) \o <<"]">>
    [] value.tag = "Text" -> <<"\"">> \o value.text \o <<"\"">>
    [] value.tag = "Prompt" -> <<"{">> \o value.prompt \o <<"}">>

\* Structural equality of two Values, each with its own object store.
RECURSIVE Same(_, _, _, _)
Same(a, ha, b, hb) ==
  /\ a.tag = b.tag
  /\ CASE a.tag = "Catenate" ->
           /\ Len(ha[a.ref]) = Len(hb[b.ref])
           /\ \A i \in 1..Len(ha[a.ref]) :
                Same(ha[a.ref][i], ha, hb[b.ref][i], hb)
       [] a.tag = "Quote" -> Same(a.body, ha, b.body, hb)
       [] OTHER -> a = b

\* C31: for every text s that read accepts, read accepts toString(read(s))
\* and gives a Value structurally equal to read(s); the text [] reads as
\* the Quote of Id (inside the Catenate read always returns) and prints
\* as [].
C31_PrintThenReadIsSame ==
  pc = "parsed" =>
    LET printed == toString_string(result, heap)
        again == read_string(printed)
    IN /\ again.thrown = ""
       /\ Same(again.value, again.heap, result, heap)
       /\ init = <<"[", "]">> =>
            /\ result.tag = "Catenate"
            /\ heap[result.ref] = <<quote(id)>>
            /\ printed = <<"[", "]">>

\* read has accepted [ ]a ; its Value prints as [] a, another text.
C31_Witness ==
  /\ pc = "parsed"
  /\ init = <<"[", " ", "]", "a">>
  /\ toString_string(result, heap) = <<"[", "]", " ", "a">>

----------------------------------------------------------------------------
\* s is a prefix of t.
IsPrefix(s, t) == Len(s) <= Len(t) /\ SubSeq(t, 1, Len(s)) = s

\* C35: an iteration that changes the sink is a thunk: the sink gets the
\* whole of data, bottom first, and then the top of code; data is left
\* empty and code loses just its top.  Nothing else changes the sink, so
\* at every step of a call that returns, what the sink prints is a prefix
\* of what the residual returned in the end prints.
C35_SinkIsPrefixOfResidual ==
  [][ /\ sink' # sink =>
           /\ Dispatching
           /\ sink' = sink \o data \o <<hand>>
           /\ data' = <<>>
           /\ code' = below
      /\ (pc = "loop" /\ ~call.script) =>
           LET l == loop(machine, 0)
               r == residual(l.end)
           IN l.end.thrown = "" =>
                /\ IsPrefix(sink, l.end.sink)
                /\ IsPrefix(Printed(sink, heap), toString(r.value, r.heap)) ]_vars

----------------------------------------------------------------------------
\* The instruction on top of code is a primitive whose operands are not
\* there: too few values on data, a value of the wrong kind, no dictionary
\* for Define and Delete, no Reset below a Shift, or Reset itself.
CannotFire ==
  /\ hand.tag = "Constant"
  /\ hand.name \in Combinators
  /\ Terminal \/ StarvedSix \/ StarvedBranch

\* C39: a primitive that cannot fire does to the machine what thunk does
\* and nothing more: data goes to the sink whole, the primitive follows
\* it, the code below is as it was, no Value is made and the dictionary
\* is as it was.
C39_FailureIsOnlyThunk ==
  [][ (Dispatching /\ ~call.script /\ CannotFire) =>
        LET t == thunk(machine)
        IN /\ code' = t.code /\ code' = below
           /\ data' = t.data /\ data' = <<>>
           /\ sink' = t.sink /\ IsPrefix(sink \o data, sink')
           /\ heap' = heap
           /\ born' = born
           /\ dictionary' = dictionary ]_vars

\* Inr found a Text where it needs three values: the Text is in the sink,
\* ahead of the Inr.
C39_Witness ==
  /\ pc = "loop"
  /\ ~call.script
  /\ sink = <<text("n"), constant("Inr")>>
  /\ data = <<>>
  /\ code = <<>>
  /\ gas = 0

----------------------------------------------------------------------------
\* C40: at every point of a call, every item of code below the top is a
\* single instruction, neither a Catenate nor an Id; a Catenate can only
\* be the top item.  So the items Shift scans for a Reset are instructions.
C40_OnlyTopIsCatenate ==
  ~call.script =>
    \A i \in 1..(Len(code) - 1) : code[i].tag \notin {"Catenate", "Id"}

\* An App has put the body of a Quote, a Catenate, on code above an
\* instruction that waits there.
C40_Witness ==
  /\ pc = "loop"
  /\ ~call.script
  /\ iterations > 0
  /\ Len(code) >= 2
  /\ code[Len(code)].tag = "Catenate"
  /\ code[Len(code) - 1] = constant("App")

----------------------------------------------------------------------------
(* The server of netcode.ts (class Client, class Server) and the older      *)
(* server.ts, with the worker of netcode/worker.ts.  A message is the text  *)
(* a peer sends, cut into lexemes: a bracket, a run of white space, or an    *)
(* atom as read takes it.                                                    *)

Open == [tok |-> "["]
Close == [tok |-> "]"]
Space == [tok |-> " "]

MaxSends == 2  \* messages the peers send, all connections together

Clients == {1, 2}
Servers == {"netcode.ts", "server.ts"}

\* The texts the peers send.
Messages ==
  { <<P("Quit")>>,
    <<P(" Quit ")>>,
    <<P("Quit"), Space, V("x")>>,
    <<Open, V("x"), Close, Space, T("n"), Space, C("Define")>>,
    <<V("n")>>,
    <<Close>>,
    <<Open, Close, Space, C("App")>>,
    <<V("length")>> }

\* String.prototype.trim.
RECURSIVE trim(_)
trim(source) ==
  IF source = <<>> THEN source
  ELSE IF Head(source) = Space THEN trim(Tail(source))
  ELSE IF source[Len(source)] = Space
    THEN trim(SubSeq(source, 1, Len(source) - 1))
  ELSE source

\* The property keys of an Array of two elements that a text can equal:
\* the indices, length, and the names inherited from Array.prototype
\* (one of them stands for all).
ArrayKeys == {"0", "1", "length", "push"}

\* The test of the listen loop that ends the session.
\* netcode.ts: /^{\s*Quit\s*}/.test(source), a Quit prompt at the start of
\* the text, whatever follows it.
\* server.ts: source.trim() in ['{Quit}', '{ Quit }'], the JavaScript
\* operator in, which asks whether the text is a property key of the
\* array.
isQuit(file, source) ==
  IF file = "netcode.ts"
    THEN /\ source # <<>>
         /\ source[1].tok = "Prompt"
         /\ source[1].name \in {"Quit", " Quit "}
    ELSE /\ Len(trim(source)) = 1
         /\ trim(source)[1].tok = "Variable"
         /\ trim(source)[1].name \in ArrayKeys

\* read(code) in the worker: the brackets of the lexemes are matched with
\* the stack of read, and the tokens go to catenate.
RECURSIVE read_lexemes(_, _, _, _)
read_lexemes(source, index, built, stack) ==
  IF index > Len(source)
    THEN IF Len(stack) > 0 THEN Unreadable("Unbalanced brackets")
         ELSE [thrown |-> "", build |-> built]
  ELSE
    LET lexeme == source[index]
    IN CASE lexeme = Space -> read_lexemes(source, index + 1, built, stack)
         [] lexeme = Open ->
              read_lexemes(source, index + 1, <<>>, Append(stack, built))
         [] lexeme = Close ->
              IF Len(stack) = 0 THEN Unreadable("Unbalanced brackets")
              ELSE read_lexemes(source, index + 1,
                                Append(stack[Len(stack)], Q(built)),
                                SubSeq(stack, 1, Len(stack) - 1))
         [] OTHER ->
              read_lexemes(source, index + 1, Append(built, lexeme), stack)

\* self.onmessage of the worker w on the event {id, code}: the reply it
\* posts, and the dictionary and the objects it is left with.  An error
\* reply carries the name of the Panic, a result reply the printed
\* residual.
worker_onmessage(w, event) ==
  LET l == read_lexemes(event.code, 1, <<>>, <<>>)
  IN IF l.thrown # ""
       THEN [w EXCEPT !.outbox =
               Append(@, [id |-> event.id, result |-> <<>>,
                          error |-> l.thrown])]
       ELSE
         LET parsed == read(l.build, w.heap)
             e == evaluate(parsed.value, w.dictionary, MaxGas, parsed.heap)
         IN [w EXCEPT
               !.dictionary = e.dictionary,
               !.heap = e.heap,
               !.outbox =
                 Append(@, [id |-> event.id,
                            result |-> IF e.thrown = ""
                                         THEN toString(e.value, e.heap)
                                         ELSE <<>>,
                            error |-> e.thrown])]

\* A connection c as one record of its three objects.
connection(c) ==
  [client |-> clients[c], socket |-> sockets[c], worker |-> workers[c]]

Bye == <<"Bye">>
Okay == <<"{", " Okay ", "}">>

\* Client.send: message || '{ Okay }' goes out on an open socket; on a
\* socket that is not open nothing goes out.
Client_send(k, message) ==
  IF k.socket.readyState = "open"
    THEN [k EXCEPT !.socket.sent =
            Append(@, IF message = <<>> THEN Okay ELSE message)]
    ELSE k

\* Client.close: socket.close() and worker.terminate().
Client_close(k) ==
  [k EXCEPT !.socket.readyState = IF @ = "open" THEN "closing" ELSE @,
            !.worker.terminated = TRUE]

\* An evaluate that takes the id without moving nextId on.
Client_evaluate_sameId(k, source) ==
  LET ident == k.client.nextId
  IN [k EXCEPT !.client.pendingEval = @ \cup {ident},
               !.client.asked = Append(@, [id |-> ident, code |-> source]),
               !.worker.inbox =
                 IF k.worker.terminated THEN @
                 ELSE Append(@, [id |-> ident, code |-> source])]

\* Client.evaluate up to the promise it returns: the next id is taken, the
\* promise is filed under it and {id, code} is posted to the worker (a
\* terminated worker receives nothing).
Client_evaluate(k, source) ==
  LET ident == k.client.nextId
  IN [k EXCEPT !.client.nextId = @ + 1,
               !.client.pendingEval = @ \cup {ident},
               !.client.asked = Append(@, [id |-> ident, code |-> source]),
               !.worker.inbox =
                 IF k.worker.terminated THEN @
                 ELSE Append(@, [id |-> ident, code |-> source])]

\* The body of the while loop of listen from the source that read gave,
\* up to the await of evaluate or to the return.
listen_body(file, k, source) ==
  LET got == [k EXCEPT !.client.heard = Append(@, source)]
  IN IF isQuit(file, source)
       THEN LET said == IF file = "netcode.ts" THEN Client_send(got, Bye)
                        ELSE got
            IN [Client_close(said) EXCEPT !.client.listen = "returned"]
       ELSE [Client_evaluate(got, source) EXCEPT !.client.listen = "awaitEval"]

\* A read that leaves the promise pending although messages are queued.
Client_read_pending(file, k) ==
  IF k.client.isSocketClosed THEN [k EXCEPT !.client.listen = "rejected"]
  ELSE [k EXCEPT !.client.pendingRead = TRUE, !.client.listen = "awaitRead"]

\* await this.read() in listen: the throw on a closed socket rejects
\* listen; a queued message is shifted and the loop body runs on it;
\* otherwise the promise is left in pendingRead.
Client_read(file, k) ==
  IF k.client.isSocketClosed THEN [k EXCEPT !.client.listen = "rejected"]
  ELSE IF Len(k.client.readQueue) > 0
    THEN listen_body(file, [k EXCEPT !.client.readQueue = Tail(@)],
                     Head(k.client.readQueue))
  ELSE [k EXCEPT !.client.pendingRead = TRUE, !.client.listen = "awaitRead"]

\* new Client(socket) followed by listen() up to its first await.
NewClient ==
  [readQueue |-> <<>>, pendingRead |-> TRUE, pendingEval |-> {},
   nextId |-> 0, isSocketClosed |-> FALSE, listen |-> "awaitRead",
   heard |-> <<>>,    \* the sources read has returned, in order
   asked |-> <<>>]    \* the {id, code} posted, in order

NewSocket ==
  [readyState |-> "open",
   incoming |-> <<>>,   \* sent by the peer, no message event yet
   sends |-> 0,         \* how many the peer has sent
   arrived |-> <<>>,    \* the data of the message events, in order
   sent |-> <<>>]       \* what send has put on the socket, in order

\* The module scope of worker.ts: let dictionary = new Map().
NewWorker ==
  [terminated |-> FALSE, inbox |-> <<>>, outbox |-> <<>>,
   dictionary |-> [has |-> TRUE, map |-> [n \in {} |-> id]],
   heap |-> <<>>,
   handled |-> <<>>,   \* the events onmessage has run on, in order
   replies |-> <<>>]   \* the replies it has posted, in order

\* One module scope, that of the first worker, for every worker.
scope_shared(ws, c) ==
  [ws[c] EXCEPT !.dictionary = ws[1].dictionary, !.heap = ws[1].heap]

\* The module scope the worker of c runs in: new Worker(workerAddress(),
\* {type: 'module'}) in the constructor of Client loads worker.ts anew, so
\* each worker has the dictionary of its own module.
scope(ws, c) == ws[c]

\* Both connections are made; nothing has been sent.
ServerInit ==
  /\ server \in Servers
  /\ clients = [c \in Clients |-> NewClient]
  /\ sockets = [c \in Clients |-> NewSocket]
  /\ workers = [c \in Clients |-> NewWorker]
  /\ code = <<>>
  /\ data = <<>>
  /\ sink = <<>>
  /\ heap = <<>>
  /\ born = <<>>
  /\ dictionary = [has |-> FALSE, map |-> [n \in {} |-> id]]
  /\ gas = 0
  /\ pc = "serve"
  /\ result = id
  /\ init = id
  /\ call = [gas |-> 0, heap |-> <<>>, dictionary |-> dictionary,
             script |-> FALSE]
  /\ iterations = 0

core == <<code, data, sink, heap, dictionary, gas, pc, result, init, born,
          call, iterations, server>>

Sends == sockets[1].sends + sockets[2].sends

\* The connection c is left as k.
Becomes(c, k) ==
  /\ clients' = [clients EXCEPT ![c] = k.client]
  /\ sockets' = [sockets EXCEPT ![c] = k.socket]
  /\ workers' = [workers EXCEPT ![c] = k.worker]
  /\ UNCHANGED core

\* The peer of c sends a message.
SocketSend(c) ==
  /\ pc = "serve"
  /\ Sends < MaxSends
  /\ sockets[c].readyState = "open"
  /\ \E message \in Messages :
       sockets' = [sockets EXCEPT ![c].incoming = Append(@, message),
                                  ![c].sends = @ + 1]
  /\ UNCHANGED <<clients, workers>>
  /\ UNCHANGED core

\* Client.onSocketMessage, and listen as far as it runs when the pending
\* read is resolved.
onSocketMessage(c) ==
  /\ pc = "serve"
  /\ sockets[c].readyState # "closed"
  /\ sockets[c].incoming # <<>>
  /\ LET source == Head(sockets[c].incoming)
         k == [connection(c) EXCEPT !.socket.incoming = Tail(@),
                                    !.socket.arrived = Append(@, source)]
     IN IF k.client.pendingRead
          THEN Becomes(c, listen_body(server,
                            [k EXCEPT !.client.pendingRead = FALSE], source))
          ELSE Becomes(c, [k EXCEPT !.client.readQueue = Append(@, source)])

\* self.onmessage of the worker of c on the oldest posted event.
Worker(c) ==
  /\ pc = "serve"
  /\ ~workers[c].terminated
  /\ workers[c].inbox # <<>>
  /\ LET event == Head(workers[c].inbox)
         w == worker_onmessage([scope(workers, c) EXCEPT !.inbox = Tail(@)],
                               event)
     IN workers' =
          [workers EXCEPT ![c] =
             [w EXCEPT !.handled = Append(@, event),
                       !.replies = Append(@, w.outbox[Len(w.outbox)])]]
  /\ UNCHANGED <<clients, sockets>>
  /\ UNCHANGED core

\* Client.onWorkerMessage on the oldest reply, and listen as far as it runs
\* when the pending evaluate is settled.  A send on a socket that is not
\* open either throws, which rejects listen, or drops the message.
onWorkerMessage(c) ==
  /\ pc = "serve"
  /\ workers[c].outbox # <<>>
  /\ LET event == Head(workers[c].outbox)
         k == [connection(c) EXCEPT !.worker.outbox = Tail(@)]
     IN IF event.id \in k.client.pendingEval
          THEN LET settled == [k EXCEPT !.client.pendingEval = @ \ {event.id}]
               IN IF event.error # ""
                    THEN Becomes(c, [settled EXCEPT !.client.listen = "rejected"])
                    ELSE \E throws \in BOOLEAN :
                           IF throws /\ settled.socket.readyState # "open"
                             THEN Becomes(c, [settled EXCEPT
                                                !.client.listen = "rejected"])
                             ELSE Becomes(c, Client_read(server,
                                               Client_send(settled, event.result)))
          ELSE Becomes(c, k)

\* The socket of c closes: Client.onSocketClose.
onSocketClose(c) ==
  /\ pc = "serve"
  /\ sockets[c].readyState # "closed"
  /\ Becomes(c, [connection(c) EXCEPT !.socket.readyState = "closed",
                                      !.socket.incoming = <<>>,
                                      !.worker.terminated = TRUE])

\* The socket of c reports an error: Client.onSocketError.
onSocketError(c) ==
  /\ pc = "serve"
  /\ sockets[c].readyState = "open"
  /\ ~workers[c].terminated
  /\ Becomes(c, [connection(c) EXCEPT !.worker.terminated = TRUE])

ServerNext ==
  \E c \in Clients :
    \/ SocketSend(c)
    \/ onSocketMessage(c)
    \/ Worker(c)
    \/ onWorkerMessage(c)
    \/ onSocketClose(c)
    \/ onSocketError(c)

ServerSpec == ServerInit /\ [][ServerNext]_vars

----------------------------------------------------------------------------
\* A worker that starts as w and runs onmessage on the events in turn.
RECURSIVE Replay(_, _)
Replay(w, events) ==
  IF events = <<>> THEN w
  ELSE LET after == worker_onmessage(w, Head(events))
       IN Replay([after EXCEPT
                    !.handled = Append(@, Head(events)),
                    !.replies = Append(@, after.outbox[Len(after.outbox)])],
                 Tail(events))

Defines == <<Open, V("x"), Close, Space, T("n"), Space, C("Define")>>

\* C32: each connection has a worker and a dictionary of its own.  The
\* replies, the dictionary and the objects of the worker of c are those of
\* a fresh worker that is given the requests of c alone, whatever the
\* other connection has asked and in whatever order the events fell; and
\* after c has defined n, the request n of c is answered with its body.
C32_ClientsAreIsolated ==
  pc = "serve" =>
    \A c \in Clients :
      LET alone == Replay(NewWorker, workers[c].handled)
      IN /\ workers[c].replies = alone.replies
         /\ workers[c].dictionary = alone.dictionary
         /\ workers[c].heap = alone.heap
         /\ \A i \in 1..Len(workers[c].handled) :
              workers[c].handled[i] = clients[c].asked[i]
         /\ (/\ Len(workers[c].handled) = 2
             /\ workers[c].handled[1].code = Defines
             /\ workers[c].handled[2].code = <<V("n")>>) =>
              workers[c].replies[2].result = <<"x">>

\* The first connection has defined n and the second has asked for n: it
\* is answered n, the name being unbound in its own dictionary.
C32_Witness ==
  /\ pc = "serve"
  /\ Len(workers[1].handled) = 1
  /\ workers[1].handled[1].code = Defines
  /\ "n" \in DOMAIN workers[1].dictionary.map
  /\ workers[2].replies = <<[id |-> 0, result |-> <<"n">>, error |-> ""]>>

----------------------------------------------------------------------------
\* The text is a Quit prompt and nothing else: {Quit} or { Quit }.
BareQuit(source) == trim(source) \in {<<P("Quit")>>, <<P(" Quit ")>>}

\* C33: in each listen loop, a message ends the session exactly when it is
\* a bare Quit prompt.  A bare Quit prompt is never posted to the worker,
\* and once read has returned one the loop has returned, the socket is
\* closing or closed and the worker is terminated; every other message
\* that read has returned has been posted to the worker.
C33_QuitIsExactlyBareQuit ==
  pc = "serve" =>
    \A c \in Clients :
      LET heard == clients[c].heard
          asked == clients[c].asked
      IN /\ \A i \in 1..Len(asked) : ~BareQuit(asked[i].code)
         /\ \A i \in 1..Len(heard) :
              BareQuit(heard[i]) =>
                /\ i = Len(heard)
                /\ clients[c].listen = "returned"
                /\ sockets[c].readyState # "open"
                /\ workers[c].terminated
         /\ Len(asked) = Cardinality({i \in 1..Len(heard) : ~BareQuit(heard[i])})

----------------------------------------------------------------------------
\* The oldest reply of the worker of c is an error for a pending request.
ErrorReply(c) ==
  /\ pc = "serve"
  /\ workers[c].outbox # <<>>
  /\ Head(workers[c].outbox).error \in {"Unreadable", "Unknown"}
  /\ Head(workers[c].outbox).id \in clients[c].pendingEval

\* C34: when the reply to a request of c is an Unreadable or Unknown
\* error, handling that reply puts the diagnostic on the open socket of c
\* and leaves the listen loop running, reading the next request.
C34_ErrorsAreAnswered ==
  [][ \A c \in Clients :
        (/\ ErrorReply(c)
         /\ sockets[c].readyState = "open"
         /\ workers'[c].outbox = Tail(workers[c].outbox)) =>
          /\ Len(sockets'[c].sent) = Len(sockets[c].sent) + 1
          /\ clients'[c].listen \in {"awaitRead", "awaitEval"} ]_vars

----------------------------------------------------------------------------
\* What send puts on the socket for a result.
Rendered(reply) == IF reply.result = <<>> THEN Okay ELSE reply.result

----------------------------------------------------------------------------
\* C37: once the socket of a connection has closed, its listen loop does
\* not stay waiting for a message: the flag isSocketClosed is up, so that
\* read throws, no read is left pending, the worker is terminated and
\* nothing is sent after the close.
C37_ClosedSocketEndsListen ==
  [][ \A c \in Clients :
        sockets[c].readyState = "closed" =>
          /\ clients[c].isSocketClosed
          /\ ~clients[c].pendingRead
          /\ clients[c].listen # "awaitRead"
          /\ workers[c].terminated
          /\ sockets'[c].sent = sockets[c].sent ]_vars

----------------------------------------------------------------------------
C38_WitnessHandedOver ==
  /\ pc = "serve"
  /\ clients[1].readQueue = <<>>
  /\ Len(clients[1].heard) = 2
  /\ clients[1].heard = sockets[1].arrived
  /\ Len(sockets[1].sent) = 1
  /\ clients[1].listen = "awaitEval"

====
